---- MODULE Spec2Model ----
(***************************************************************************)
(* A model of the serverless template's core: the dependency-injection     *)
(* context (chalicelib/core/context.py), the request options value objects *)
(* (chalicelib/domain/request_options.py) and the MySQL translator         *)
(* (chalicelib/repositories/mysql_translator.py).                          *)
(*                                                                         *)
(* Python strings are modelled as sequences of one-character strings, so   *)
(* that str.join, str.split and iteration over a string do what they do in *)
(* the code.  Python's None is the model value None.                       *)
(***************************************************************************)
EXTENDS Integers, Sequences, FiniteSets, TLC

VARIABLES
    registry,       \* ApplicationContext.registry: ordered dict "Class.attr" -> (args, kwargs)
    active_beans,   \* ApplicationContext.active_beans: dict key -> bean
    created,        \* number of instances constructed so far (the identity of the next one)
    ret,            \* outcome of the last request_instance call
    returned,       \* the beans returned by the successful request_instance calls, in order
    filter_call,    \* the last FilterRequest(...) call: arguments, error raised, object built
    pagination_call,\* the last Pagination(...) call: arguments, error raised, object built
    dto_call,       \* the last RequestPagination(...) call: arguments and error raised
    table,          \* the rows of the entity table, in storage order
    request_options,\* the RequestOptions handed to the translator (filters, pagination, return values)
    translated,     \* the last translate_operation call: pagination before it, error raised, data returned
    response,       \* the last Pagination.serialize call: error raised or response built
    extracted,      \* the last parameter extraction or create_bean call and its outcome
    deleted_at,     \* the ids of the rows whose deleted_at column is set (logically deleted)
    repository_call,\* the last BaseRepository call: arguments, session, error raised, value returned
    http_requests,  \* HTTPController.http_requests: the requests processed, in order
    http_calls,     \* the process_request calls so far: what dispatch did and what the caller got
    loggers,        \* SystemLogger.loggers: the registered loggers, by name
    logger_call,    \* the last add_logger or delete_logger call and the error it raised
    resolving,      \* the request_instance calls in progress: each one's position and locals
    internal_clients,\* ClientPool.internal_clients: the pooled DatabaseClients, in order
    pool_call,      \* the last ClientPool call: arguments, pool before it, error raised, list returned
    inspection,     \* the last BeanController inspection call: the attributes dict before and after
    manager_components, \* ComponentManagementController.components, in order
    manager_result, \* ComponentManagementController.result
    manager_call    \* the last ComponentManagementController.process call and what each component did

ctxVars == <<registry, active_beans, created, ret, returned>>

optVars == <<filter_call, pagination_call, dto_call>>

trVars == <<table, request_options, translated, response>>

ctlVars == <<extracted>>

\* the variables of the layers above the context, the request options and the
\* translator
repoVars == <<deleted_at, repository_call>>

\* the variables of the layers above the controllers
httpVars == <<http_requests, http_calls>>

logVars == <<loggers, logger_call>>

\* the variables of interleaved resolutions and of the remaining components
poolVars == <<internal_clients, pool_call>>

beanVars == <<inspection>>

managerVars == <<manager_components, manager_result, manager_call>>

lateVars == <<resolving, poolVars, beanVars, managerVars>>

outerVars == <<repoVars, httpVars, logVars, lateVars>>

moreVars == <<ctlVars, outerVars>>

vars == <<registry, active_beans, created, ret, returned,
          filter_call, pagination_call, dto_call,
          table, request_options, translated, response,
          extracted, deleted_at, repository_call,
          http_requests, http_calls, loggers, logger_call,
          resolving, internal_clients, pool_call,
          inspection, manager_components, manager_result, manager_call>>

None == "None"

(***************************************************************************)
(* Strings                                                                 *)
(***************************************************************************)
EmptyStr == <<>>

Amp == <<"&">>

\* iterating a str yields its one-character strings
Chars(s) == [i \in 1..Len(s) |-> <<s[i]>>]

\* sep.join(parts)
RECURSIVE Join(_, _)
Join(sep, parts) ==
    IF Len(parts) = 0 THEN EmptyStr
    ELSE IF Len(parts) = 1 THEN parts[1]
    ELSE parts[1] \o sep \o Join(sep, Tail(parts))

\* s.split(".")[0]
RECURSIVE SplitDotFirst(_)
SplitDotFirst(s) ==
    IF Len(s) = 0 \/ Head(s) = "." THEN EmptyStr
    ELSE <<Head(s)>> \o SplitDotFirst(Tail(s))

\* dict[key] = value on an ordered dict kept as a sequence of <<key, value>>
DictSet(d, k, v) ==
    IF \E i \in 1..Len(d) : d[i][1] = k
    THEN [i \in 1..Len(d) |-> IF d[i][1] = k THEN <<k, v>> ELSE d[i]]
    ELSE Append(d, <<k, v>>)

\* list(d.values()) of an ordered dict kept as a sequence of <<key, value>>
DictValues(d) == [i \in 1..Len(d) |-> d[i][2]]


(***************************************************************************)
(* Python values                                                           *)
(*                                                                         *)
(* A value is a record: t its type, i its integer, s its characters and    *)
(* items its elements, so that truth value, int() and isinstance can be    *)
(* computed as Python computes them.  An enum member is the value of its   *)
(* enum class t with the member's value in i (or in s).                    *)
(***************************************************************************)
PyNone == [t |-> "NoneType", i |-> 0, s |-> <<>>, items |-> <<>>]

PyInt(n) == [t |-> "int", i |-> n, s |-> <<>>, items |-> <<>>]

PyStr(chars) == [t |-> "str", i |-> 0, s |-> chars, items |-> <<>>]

PyList(items) == [t |-> "list", i |-> 0, s |-> <<>>, items |-> items]

\* bool(value)
Truthy(v) ==
    CASE v.t = "NoneType" -> FALSE
      [] v.t = "int"      -> v.i # 0
      [] v.t = "str"      -> v.s # <<>>
      [] v.t = "list"     -> v.items # <<>>
      [] v.t = "dict"     -> v.items # <<>>
      [] OTHER            -> TRUE

Digits == <<"0", "1", "2", "3", "4", "5", "6", "7", "8", "9">>

IsDigit(c) == \E d \in 1..10 : Digits[d] = c

DigitValue(c) == (CHOOSE d \in 1..10 : Digits[d] = c) - 1

RECURSIVE ParseDigits(_, _)
ParseDigits(chars, acc) ==
    IF Len(chars) = 0 THEN acc
    ELSE ParseDigits(Tail(chars), 10 * acc + DigitValue(Head(chars)))

\* int(value): the integer, or the error it raises
IntOf(v) ==
    CASE v.t = "int" -> [raised |-> None, i |-> v.i]
      [] v.t = "str" ->
            LET neg  == Len(v.s) > 0 /\ Head(v.s) = "-"
                body == IF neg THEN Tail(v.s) ELSE v.s
            IN  IF Len(body) > 0 /\ \A k \in 1..Len(body) : IsDigit(body[k])
                THEN [raised |-> None,
                      i |-> IF neg THEN 0 - ParseDigits(body, 0) ELSE ParseDigits(body, 0)]
                ELSE [raised |-> "ValueError", i |-> 0]
      [] OTHER -> [raised |-> "TypeError", i |-> 0]

(***************************************************************************)
(* Request options (chalicelib/domain/request_options.py)                  *)
(***************************************************************************)
\* class RequestOperations(Enum): the names, numbered by auto()
RequestOperationsItems ==
    << <<"EQUALS", 1>>, <<"NOT_EQUALS", 2>>, <<"LESS", 3>>, <<"GREATER", 4>>,
       <<"CONTAINS", 5>>, <<"BETWEEN", 6>> >>

\* the body of the decorated class MySQLRequestOperations: LIKE = auto()
MySQLAddedItems == << <<"LIKE", 1>> >>

\* extend_enum: the joined name -> value mapping handed to Enum(name, joined)
extend_enum(inherited_enum, added_enum) == inherited_enum \o added_enum

MySQLRequestOperationsItems == extend_enum(RequestOperationsItems, MySQLAddedItems)

\* Enum class attribute access cls.NAME: a name whose value an earlier name
\* carries is an alias of that earlier member
EnumMember(cls, items, name) ==
    LET k == CHOOSE k \in 1..Len(items) : items[k][1] = name
    IN  [t |-> cls, i |-> items[k][2], s |-> <<>>, items |-> <<>>]

\* member.name: the first name defined with the member's value
EnumName(items, member) ==
    LET k == CHOOSE k \in 1..Len(items) :
                /\ items[k][2] = member.i
                /\ \A j \in 1..(k - 1) : items[j][2] # member.i
    IN  items[k][1]

RequestOperations(name) == EnumMember("RequestOperations", RequestOperationsItems, name)

MySQLRequestOperations(name) ==
    EnumMember("MySQLRequestOperations", MySQLRequestOperationsItems, name)

\* class OrderType(Enum)
OrderTypeASCENDING == [t |-> "OrderType", i |-> 0, s |-> <<"a","s","c">>, items |-> <<>>]

OrderTypeDESCENDING == [t |-> "OrderType", i |-> 0, s |-> <<"d","e","s","c">>, items |-> <<>>]

NoFilterRequest == [request_value |-> PyNone, request_operation |-> PyNone]

\* FilterRequest.__init__(request_value, request_operation)
FilterRequestInit(request_value, request_operation) ==
    IF /\ request_operation.t # "RequestOperations"
       /\ request_operation.t # "MySQLRequestOperations"
    THEN [raised |-> "InputParameterException", obj |-> NoFilterRequest]
    ELSE IF /\ request_value.t = "list"
            /\ request_operation # RequestOperations("CONTAINS")
            /\ request_operation # RequestOperations("BETWEEN")
    THEN [raised |-> "InputParameterException", obj |-> NoFilterRequest]
    ELSE [raised |-> None,
          obj |-> [request_value |-> request_value,
                   request_operation |-> request_operation]]

NoPagination ==
    [page |-> PyNone, page_size |-> PyNone, total_size |-> PyNone, order_by |-> PyNone,
     order_type |-> PyNone, additional_query_params |-> <<>>, results |-> <<>>,
     default_value |-> PyNone]

\* Pagination.__init__(page, page_size, order_by, order_type)
PaginationInit(page, page_size, order_by, order_type) ==
    IF Truthy(order_type) /\ order_type.t # "OrderType"
    THEN [raised |-> "InputParameterException", obj |-> NoPagination]
    ELSE IF \/ (Truthy(page) /\ page_size = PyNone)
            \/ (Truthy(page_size) /\ page = PyNone)
    THEN [raised |-> "InputParameterException", obj |-> NoPagination]
    ELSE IF /\ Truthy(page) /\ Truthy(page_size)
            /\ (IntOf(page).raised = "ValueError" \/ IntOf(page_size).raised = "ValueError")
    THEN [raised |-> "InputParameterException", obj |-> NoPagination]
    ELSE LET conv == Truthy(page) /\ Truthy(page_size)
         IN  [raised |-> None,
              obj |-> [page |-> IF conv THEN PyInt(IntOf(page).i) ELSE page,
                       page_size |-> IF conv THEN PyInt(IntOf(page_size).i) ELSE page_size,
                       total_size |-> PyNone,
                       order_by |-> order_by,
                       order_type |-> order_type,
                       additional_query_params |-> <<>>,
                       results |-> <<>>,
                       default_value |-> PyNone]]

\* RequestPagination: the two root validators of the request DTO
RequestPaginationValidate(page, page_size, order_by, order_type) ==
    IF \/ (page = PyNone /\ page_size # PyNone)
       \/ (page # PyNone /\ page_size = PyNone)
    THEN [raised |-> "ValueError"]
    ELSE IF \/ (order_by = PyNone /\ order_type # PyNone)
            \/ (order_by # PyNone /\ order_type = PyNone)
    THEN [raised |-> "ValueError"]
    ELSE [raised |-> None]

\* the operands and operators the callers pass to FilterRequest
FilterValues ==
    { PyInt(1), PyInt(2), PyStr(<<"a">>),
      PyList(<<>>), PyList(<<PyInt(1)>>), PyList(<<PyInt(1), PyInt(2)>>),
      PyList(<<PyInt(2), PyInt(3)>>) }

OperationNames == {RequestOperationsItems[k][1] : k \in 1..Len(RequestOperationsItems)}

MySQLOperationNames ==
    {MySQLRequestOperationsItems[k][1] : k \in 1..Len(MySQLRequestOperationsItems)}

FilterOperations ==
    {RequestOperations(n) : n \in OperationNames}
        \cup {MySQLRequestOperations(n) : n \in MySQLOperationNames}
        \cup {PyStr(<<"E","Q","U","A","L","S">>), OrderTypeASCENDING}

\* the page and page size arguments the callers pass to Pagination
MaxPage == 3

PageValues ==
    {PyNone, PyStr(<<>>), PyStr(<<"2">>), PyStr(<<"x">>)}
        \cup {PyInt(n) : n \in -1..MaxPage}

OrderByValues == {PyNone, PyStr(<<"i","d">>)}

OrderTypeValues == {PyNone, OrderTypeASCENDING, OrderTypeDESCENDING, PyStr(<<"a","s","c">>)}

NoFilterCall ==
    [called |-> FALSE, request_value |-> PyNone, request_operation |-> PyNone,
     raised |-> None, obj |-> NoFilterRequest]

NoPaginationCall ==
    [called |-> FALSE, page |-> PyNone, page_size |-> PyNone, order_by |-> PyNone,
     order_type |-> PyNone, raised |-> None, obj |-> NoPagination]

NoDtoCall ==
    [called |-> FALSE, page |-> PyNone, page_size |-> PyNone, order_by |-> PyNone,
     order_type |-> PyNone, raised |-> None]

OptionsIdle ==
    /\ filter_call = NoFilterCall
    /\ pagination_call = NoPaginationCall
    /\ dto_call = NoDtoCall


(***************************************************************************)
(* The entity table and the SQLAlchemy query                               *)
(***************************************************************************)
MaxRows == 5

\* the rows of a DisplayEntity table in storage order: the primary key and the
\* order column, which sorts the rows differently from the key
Row(i) == [id |-> i, order |-> (3 * i) % 7]

Tables == {[i \in 1..n |-> Row(i)] : n \in 0..MaxRows}

Columns == {"id", "order"}

\* getattr(class_, key): the column a name denotes, "?" when the entity has
\* no such attribute
GetAttr(name) ==
    IF name = <<"i","d">> THEN "id"
    ELSE IF name = <<"o","r","d","e","r">> THEN "order"
    ELSE "?"

\* session.query(entity): every row, no order, no limit, no offset
NewQuery(rows) ==
    [rows |-> rows, order_by |-> "", descending |-> FALSE,
     limited |-> FALSE, limit |-> 0, shifted |-> FALSE, offset |-> 0]

\* the rows a query keeps, for a test on the column value
Keep(rows, Test(_)) == SelectSeq(rows, Test)

\* ORDER BY column ASC: insertion of each row into the sorted prefix
RECURSIVE Sorted(_, _)
Sorted(rows, col) ==
    IF Len(rows) <= 1 THEN rows
    ELSE LET rest == Sorted(Tail(rows), col)
             h    == Head(rows)
             BeforeHead(r)    == r[col] < h[col]
             NotBeforeHead(r) == ~(r[col] < h[col])
         IN  SelectSeq(rest, BeforeHead) \o <<h>> \o SelectSeq(rest, NotBeforeHead)

Reversed(rows) == [i \in 1..Len(rows) |-> rows[Len(rows) + 1 - i]]

\* the rows in the order the query yields them, before LIMIT and OFFSET
QueryOrder(query) ==
    IF query.order_by = "" THEN query.rows
    ELSE IF query.descending THEN Reversed(Sorted(query.rows, query.order_by))
    ELSE Sorted(query.rows, query.order_by)

\* rows[from + 1 .. from + count] as far as they exist
Window(rows, from, count) ==
    LET last == IF from + count < Len(rows) THEN from + count ELSE Len(rows)
    IN  IF from >= Len(rows) THEN <<>> ELSE SubSeq(rows, from + 1, last)

\* query.all(): MySQL rejects a negative LIMIT or OFFSET
QueryAll(query) ==
    IF (query.limited /\ query.limit < 0) \/ (query.shifted /\ query.offset < 0)
    THEN [raised |-> "ProgrammingError", rows |-> <<>>]
    ELSE [raised |-> None,
          rows |-> LET ordered == QueryOrder(query)
                       from    == IF query.shifted THEN query.offset ELSE 0
                   IN  IF query.limited
                       THEN Window(ordered, from, query.limit)
                       ELSE Window(ordered, from, Len(ordered))]

\* str(n) of an integer
RECURSIVE NatToStr(_)
NatToStr(n) ==
    IF n < 10 THEN <<Digits[n + 1]>>
    ELSE NatToStr(n \div 10) \o <<Digits[(n % 10) + 1]>>

IntToStr(n) == IF n < 0 THEN <<"-">> \o NatToStr(0 - n) ELSE NatToStr(n)

\* SQL LIKE: % matches any run of characters, _ any one character
RECURSIVE Like(_, _)
Like(text, pattern) ==
    IF Len(pattern) = 0 THEN Len(text) = 0
    ELSE IF Head(pattern) = "%"
         THEN \/ Like(text, Tail(pattern))
              \/ (Len(text) > 0 /\ Like(Tail(text), pattern))
    ELSE /\ Len(text) > 0
         /\ (Head(pattern) = "_" \/ Head(pattern) = Head(text))
         /\ Like(Tail(text), Tail(pattern))

\* math.ceil(a / b), b not 0
CeilDiv(a, b) ==
    LET n == IF b < 0 THEN 0 - a ELSE a
        d == IF b < 0 THEN 0 - b ELSE b
    IN  IF n >= 0 THEN (n + d - 1) \div d ELSE 0 - ((0 - n) \div d)

(***************************************************************************)
(* The MySQL translator (chalicelib/repositories/mysql_translator.py)      *)
(***************************************************************************)
\* MySQLTranslator.__init__: the assignments to self.sentences, in order
SentenceAssignments ==
    << <<RequestOperations("EQUALS"), "equals_operation">>,
       <<RequestOperations("NOT_EQUALS"), "not_equals_operation">>,
       <<RequestOperations("LESS"), "less_operation">>,
       <<RequestOperations("GREATER"), "greater_operation">>,
       <<RequestOperations("CONTAINS"), "contains_operation">>,
       <<RequestOperations("BETWEEN"), "between_operation">>,
       <<MySQLRequestOperations("EQUALS"), "equals_operation">>,
       <<MySQLRequestOperations("NOT_EQUALS"), "not_equals_operation">>,
       <<MySQLRequestOperations("LESS"), "less_operation">>,
       <<MySQLRequestOperations("GREATER"), "greater_operation">>,
       <<MySQLRequestOperations("CONTAINS"), "contains_operation">>,
       <<MySQLRequestOperations("BETWEEN"), "between_operation">>,
       <<MySQLRequestOperations("LIKE"), "like_operation">> >>

RECURSIVE DictFromAssignments(_, _)
DictFromAssignments(d, assignments) ==
    IF Len(assignments) = 0 THEN d
    ELSE DictFromAssignments(DictSet(d, Head(assignments)[1], Head(assignments)[2]),
                             Tail(assignments))

sentences == DictFromAssignments(<<>>, SentenceAssignments)

\* self.sentences.get(request_operation, None)
SentenceGet(request_operation) ==
    IF \E k \in 1..Len(sentences) : sentences[k][1] = request_operation
    THEN sentences[CHOOSE k \in 1..Len(sentences) : sentences[k][1] = request_operation][2]
    ELSE None

\* the number MySQL reads at the head of a string: its leading digits, else 0
RECURSIVE LeadingDigits(_)
LeadingDigits(chars) ==
    IF Len(chars) = 0 \/ ~IsDigit(Head(chars)) THEN <<>>
    ELSE <<Head(chars)>> \o LeadingDigits(Tail(chars))

\* the value of a scalar operand as MySQL compares it with an integer column
ScalarInt(value) ==
    IF value.t = "str" THEN ParseDigits(LeadingDigits(value.s), 0) ELSE value.i

\* the pattern col.like(value) is given
LikePattern(value) == IF value.t = "str" THEN value.s ELSE IntToStr(value.i)

\* sentence(query, entity, key, value): the narrowed query, or the error the
\* query builder raises
ApplySentence(sentence, query, name, value) ==
    LET key == GetAttr(name)
        Narrow(Test(_)) == [raised |-> None,
                            query |-> [query EXCEPT !.rows = Keep(query.rows, Test)]]
        Failed(error) == [raised |-> error, query |-> query]
        Equal(r)      == r[key] = ScalarInt(value)
        NotEqual(r)   == r[key] # ScalarInt(value)
        Less(r)       == r[key] < ScalarInt(value)
        Greater(r)    == r[key] > ScalarInt(value)
        Member(r)     == \E k \in 1..Len(value.items) : value.items[k].i = r[key]
        Between(r)    == /\ value.items[1].i <= r[key]
                         /\ r[key] <= value.items[2].i
        Matches(r)    == Like(IntToStr(r[key]), LikePattern(value))
    IN  IF key \notin Columns THEN Failed("AttributeError")
        ELSE CASE sentence = "equals_operation"     -> Narrow(Equal)
               [] sentence = "not_equals_operation" -> Narrow(NotEqual)
               [] sentence = "less_operation"       -> Narrow(Less)
               [] sentence = "greater_operation"    -> Narrow(Greater)
               [] sentence = "like_operation"       -> Narrow(Matches)
               [] sentence = "contains_operation"   ->
                      IF value.t = "list" THEN Narrow(Member) ELSE Failed("ArgumentError")
               [] sentence = "between_operation"    ->
                      IF value.t = "list" /\ Len(value.items) = 2
                      THEN Narrow(Between)
                      ELSE Failed("TypeError")

\* the loop of translate_operation over request_options.request_filters
RECURSIVE ApplyFilters(_, _)
ApplyFilters(query, request_filters) ==
    IF Len(request_filters) = 0 THEN [raised |-> None, query |-> query]
    ELSE LET key            == Head(request_filters)[1]
             filter_request == Head(request_filters)[2]
             sentence       == SentenceGet(filter_request.request_operation)
         IN  IF sentence = None
             THEN ApplyFilters(query, Tail(request_filters))
             ELSE LET r == ApplySentence(sentence, query, key, filter_request.request_value)
                  IN  IF r.raised # None THEN r
                      ELSE ApplyFilters(r.query, Tail(request_filters))

\* order_by_operation
OrderByOperation(query, order_by, order_type) ==
    [query EXCEPT !.order_by = order_by,
                  !.descending = (order_type = OrderTypeDESCENDING)]

\* an offset that skips the requested page as well
PageOffsetOfNextPage(page, records_per_page) == page * records_per_page

\* query.offset((page - 1) * records_per_page)
PageOffset(page, records_per_page) == (page - 1) * records_per_page

\* a count that takes every row twice
CountTableDoubled(table_rows) == 2 * Len(table_rows)

\* MySQLTranslator.count_table: SELECT count(*) of the entity table
CountTable(table_rows) == Len(table_rows)

\* paginate_items leaving pagination.page as the caller gave it
PaginateItemsKeepingPage(has_pagination, pagination, query0, table_rows) ==
    IF ~has_pagination
    THEN [raised |-> QueryAll(query0).raised, data |-> QueryAll(query0).rows,
          pagination |-> pagination]
    ELSE
    LET counted == [pagination EXCEPT !.total_size = PyInt(Len(QueryAll(query0).rows))]
        order_type == pagination.order_type
        order_by == pagination.order_by
        ordering == Truthy(order_type) /\ Truthy(order_by)
        column == GetAttr(order_by.s)
        query1 == IF ordering THEN OrderByOperation(query0, column, order_type) ELSE query0
        page0 == pagination.page
        records_per_page == pagination.page_size
        full_entries == ~Truthy(page0) \/ ~Truthy(records_per_page) \/ page0 = PyInt(0)
        paged == counted
        page == IF full_entries THEN 1 ELSE page0.i
        total_records == CountTable(table_rows)
    IN  IF ordering /\ column \notin Columns
        THEN [raised |-> "AttributeError", data |-> <<>>, pagination |-> counted]
        ELSE IF total_records = 0
        THEN [raised |-> None, data |-> <<>>, pagination |-> paged]
        ELSE IF ~full_entries /\ page > CeilDiv(total_records, records_per_page.i)
        THEN [raised |-> "DatabaseException", data |-> <<>>, pagination |-> paged]
        ELSE LET query2 == IF full_entries THEN query1
                           ELSE [query1 EXCEPT !.limited = TRUE,
                                               !.limit = records_per_page.i,
                                               !.shifted = TRUE,
                                               !.offset = PageOffset(page, records_per_page.i)]
                 got == QueryAll(query2)
             IN  IF got.raised # None
                 THEN [raised |-> got.raised, data |-> <<>>, pagination |-> paged]
                 ELSE [raised |-> None, data |-> got.rows,
                       pagination |-> [paged EXCEPT !.results = got.rows]]

\* MySQLTranslator.paginate_items: the error raised, the rows returned and
\* the pagination object as the call leaves it
PaginateItems(has_pagination, pagination, query0, table_rows) ==
    IF ~has_pagination
    THEN [raised |-> QueryAll(query0).raised, data |-> QueryAll(query0).rows,
          pagination |-> pagination]
    ELSE
    LET counted == [pagination EXCEPT !.total_size = PyInt(Len(QueryAll(query0).rows))]
        order_type == pagination.order_type
        order_by == pagination.order_by
        ordering == Truthy(order_type) /\ Truthy(order_by)
        column == GetAttr(order_by.s)
        query1 == IF ordering THEN OrderByOperation(query0, column, order_type) ELSE query0
        page0 == pagination.page
        records_per_page == pagination.page_size
        full_entries == ~Truthy(page0) \/ ~Truthy(records_per_page) \/ page0 = PyInt(0)
        paged == IF full_entries THEN [counted EXCEPT !.page = PyInt(1)] ELSE counted
        page == IF full_entries THEN 1 ELSE page0.i
        total_records == CountTable(table_rows)
    IN  IF ordering /\ column \notin Columns
        THEN [raised |-> "AttributeError", data |-> <<>>, pagination |-> counted]
        ELSE IF total_records = 0
        THEN [raised |-> None, data |-> <<>>, pagination |-> paged]
        ELSE IF ~full_entries /\ page > CeilDiv(total_records, records_per_page.i)
        THEN [raised |-> "DatabaseException", data |-> <<>>, pagination |-> paged]
        ELSE LET query2 == IF full_entries THEN query1
                           ELSE [query1 EXCEPT !.limited = TRUE,
                                               !.limit = records_per_page.i,
                                               !.shifted = TRUE,
                                               !.offset = PageOffset(page, records_per_page.i)]
                 got == QueryAll(query2)
             IN  IF got.raised # None
                 THEN [raised |-> got.raised, data |-> <<>>, pagination |-> paged]
                 ELSE [raised |-> None, data |-> got.rows,
                       pagination |-> [paged EXCEPT !.results = got.rows]]

\* item.serialize(return_values): the record narrowed to the named fields
SerializeItem(row, return_values) ==
    [c \in {return_values[k] : k \in 1..Len(return_values)} \cap DOMAIN row |-> row[c]]

\* a translation whose page bound counts the rows matching the filters
TranslateResultBoundOnFilteredCount(options, table_rows) ==
    LET filtered == ApplyFilters(NewQuery(table_rows), options.request_filters)
    IN  IF filtered.raised # None
        THEN [raised |-> filtered.raised, data |-> <<>>, pagination |-> options.pagination]
        ELSE LET r == PaginateItems(options.has_pagination, options.pagination,
                                    filtered.query, filtered.query.rows)
             IN  IF r.raised = None /\ options.return_values # <<>>
                 THEN [r EXCEPT !.data = [k \in 1..Len(r.data) |->
                                             SerializeItem(r.data[k], options.return_values)]]
                 ELSE r

\* MySQLTranslator.translate_operation
TranslateResult(options, table_rows) ==
    LET filtered == ApplyFilters(NewQuery(table_rows), options.request_filters)
    IN  IF filtered.raised # None
        THEN [raised |-> filtered.raised, data |-> <<>>, pagination |-> options.pagination]
        ELSE LET r == PaginateItems(options.has_pagination, options.pagination,
                                    filtered.query, table_rows)
             IN  IF r.raised = None /\ options.return_values # <<>>
                 THEN [r EXCEPT !.data = [k \in 1..Len(r.data) |->
                                             SerializeItem(r.data[k], options.return_values)]]
                 ELSE r

(***************************************************************************)
(* Pagination.serialize (chalicelib/domain/request_options.py)             *)
(***************************************************************************)
\* Pagination.serialize_value
SerializeValue(pagination, raw_value) ==
    IF raw_value.t = "OrderType" THEN PyStr(raw_value.s)
    ELSE IF raw_value = PyNone THEN pagination.default_value
    ELSE raw_value

\* self.__dict__.items() of a Pagination, in the order __init__ assigns them,
\* without the attributes that hold no plain value (additional_query_params,
\* results), which both filters below drop by name
PaginationItems(pagination) ==
    << <<"page", pagination.page>>, <<"page_size", pagination.page_size>>,
       <<"total_size", pagination.total_size>>, <<"order_by", pagination.order_by>>,
       <<"order_type", pagination.order_type>>,
       <<"default_value", pagination.default_value>> >>

\* query parameters that carry the computed total_size as well
AddQueryParametersWithTotalSize(pagination) ==
    LET Wanted(item) == /\ item[1] \notin {"default_value", "results",
                                          "additional_query_params"}
                        /\ item[2] # PyNone
        kept == SelectSeq(PaginationItems(pagination), Wanted)
    IN  [k \in 1..Len(kept) |-> <<kept[k][1], SerializeValue(pagination, kept[k][2])>>]
            \o pagination.additional_query_params

\* Pagination.__add_query_parameters
AddQueryParameters(pagination) ==
    LET Wanted(item) == /\ item[1] \notin {"default_value", "total_size", "results",
                                          "additional_query_params"}
                        /\ item[2] # PyNone
        kept == SelectSeq(PaginationItems(pagination), Wanted)
    IN  [k \in 1..Len(kept) |-> <<kept[k][1], SerializeValue(pagination, kept[k][2])>>]
            \o pagination.additional_query_params

\* Pagination.__check_valid_query
CheckValidQuery(attribute, value) ==
    /\ attribute \notin {"default_value", "results", "total_size", "page",
                         "additional_query_params"}
    /\ value # PyNone

\* the set of "attribute=value" pieces joined into the query string
QueryParamsString(pagination, query_params) ==
    { <<query_params[k][1], SerializeValue(pagination, query_params[k][2])>> :
        k \in {j \in 1..Len(query_params) :
                  CheckValidQuery(query_params[j][1], query_params[j][2])} }

\* a page value that still names a last and a next page on the final page
GetPageValueLastAlways(pagination, name) ==
    LET page == pagination.page.i
        size == pagination.page_size
        total_size == IF pagination.total_size = PyNone
                      THEN Len(pagination.results) ELSE pagination.total_size.i
        Divided(Value(_)) ==
            IF size.t # "int" THEN [raised |-> "TypeError", value |-> PyNone]
            ELSE IF size.i = 0 THEN [raised |-> "ZeroDivisionError", value |-> PyNone]
            ELSE [raised |-> None, value |-> Value(CeilDiv(total_size, size.i))]
        Last(max_result) == IF page <= max_result THEN PyInt(max_result) ELSE PyNone
        Next(max_result) == IF page <= max_result THEN PyInt(page + 1) ELSE PyNone
    IN  CASE name = "self"  -> [raised |-> None, value |-> PyInt(page)]
          [] name = "first" -> [raised |-> None,
                                value |-> IF page > 1 THEN PyInt(1) ELSE PyNone]
          [] name = "prev"  -> [raised |-> None,
                                value |-> IF page > 1 THEN PyInt(page - 1) ELSE PyNone]
          [] name = "last"  -> Divided(Last)
          [] name = "next"  -> Divided(Next)

\* Pagination.__get_page_value, for a page that is an integer
GetPageValue(pagination, name) ==
    LET page == pagination.page.i
        size == pagination.page_size
        total_size == IF pagination.total_size = PyNone
                      THEN Len(pagination.results) ELSE pagination.total_size.i
        Divided(Value(_)) ==
            IF size.t # "int" THEN [raised |-> "TypeError", value |-> PyNone]
            ELSE IF size.i = 0 THEN [raised |-> "ZeroDivisionError", value |-> PyNone]
            ELSE [raised |-> None, value |-> Value(CeilDiv(total_size, size.i))]
        Last(max_result) == IF page < max_result THEN PyInt(max_result) ELSE PyNone
        Next(max_result) == IF page < max_result THEN PyInt(page + 1) ELSE PyNone
    IN  CASE name = "self"  -> [raised |-> None, value |-> PyInt(page)]
          [] name = "first" -> [raised |-> None,
                                value |-> IF page > 1 THEN PyInt(1) ELSE PyNone]
          [] name = "prev"  -> [raised |-> None,
                                value |-> IF page > 1 THEN PyInt(page - 1) ELSE PyNone]
          [] name = "last"  -> Divided(Last)
          [] name = "next"  -> Divided(Next)

UrlNames == <<"self", "first", "last", "prev", "next">>

\* urljoin(default_domain_url, path) without a query string
PlainUrl(path) == [null |-> FALSE, path |-> path, paged |-> FALSE, page |-> 0, params |-> {}]

\* Pagination.__add_urls_parameters: the error raised and the five urls
AddUrlsParameters(pagination, query_params, path) ==
    LET query_params_string == QueryParamsString(pagination, query_params)
        with_pages == query_params_string # {} /\ Truthy(pagination.page)
        Url(name) ==
            IF ~with_pages THEN PlainUrl(path)
            ELSE LET page_value == GetPageValue(pagination, name).value
                 IN  IF page_value = PyNone
                     THEN [null |-> TRUE, path |-> path, paged |-> FALSE, page |-> 0,
                           params |-> {}]
                     ELSE [null |-> FALSE, path |-> path, paged |-> TRUE,
                           page |-> page_value.i, params |-> query_params_string]
        failing == {k \in 1..Len(UrlNames) :
                       with_pages /\ GetPageValue(pagination, UrlNames[k]).raised # None}
    IN  [raised |-> IF failing = {} THEN None
                    ELSE GetPageValue(pagination,
                                      UrlNames[CHOOSE k \in failing :
                                                   \A j \in failing : k <= j]).raised,
         urls |-> [name \in {UrlNames[k] : k \in 1..Len(UrlNames)} |-> Url(name)],
         \* __get_page_value fills in a missing total_size
         pagination |-> IF with_pages /\ pagination.total_size = PyNone
                        THEN [pagination EXCEPT !.total_size =
                                                    PyInt(Len(pagination.results))]
                        ELSE pagination]

NoResponse ==
    [called |-> FALSE, of |-> NoPagination, raised |-> None, query |-> <<>>, results |-> <<>>, count |-> 0,
     total_size |-> 0, urls |-> [name \in {UrlNames[k] : k \in 1..Len(UrlNames)} |->
                                   PlainUrl("")]]

\* Pagination.serialize(path): the response, with the pagination as it was at
\* the call, and the pagination object after it
SerializeResult(pagination, path) ==
    LET results_list == pagination.results
        query_params == AddQueryParameters(pagination)
        page_url_dict == AddUrlsParameters(pagination, query_params, path)
        after == page_url_dict.pagination
    IN  [pagination |-> after,
         response |->
            IF page_url_dict.raised # None
            THEN [NoResponse EXCEPT !.called = TRUE, !.of = pagination,
                                    !.raised = page_url_dict.raised]
            ELSE [called |-> TRUE, of |-> pagination, raised |-> None,
                  query |-> query_params,
                  results |-> results_list,
                  count |-> Len(results_list),
                  total_size |-> IF after.total_size # PyNone
                                 THEN after.total_size.i ELSE Len(results_list),
                  urls |-> page_url_dict.urls]]

(***************************************************************************)
(* The dependency-injection context (chalicelib/core/context.py)           *)
(***************************************************************************)
MaxCalls == 2

\* The component classes of the application, in the order their modules are
\* imported.  attrs lists the attributes decorated with @register(*args,
\* **kwargs); ctor says how the constructor treats its arguments.
Classes ==
    << [name  |-> <<"P">>,                         \* @register("uri") on __init__
        attrs |-> << <<<<"i">>, << <<"u","r","i">> >>, <<>>>> >>,
        ctor  |-> "any"],
       [name  |-> <<"Q">>,                         \* @register(scope="s")
        attrs |-> << <<<<"i">>, <<>>, << <<"scope", <<"s">>>> >>>> >>,
        ctor  |-> "one_arg"],
       [name  |-> <<"S">>,                         \* @register("a", k="v"), @register()
        attrs |-> << <<<<"i">>, << <<"a">> >>, << <<"k", <<"v">>>> >>>>,
                     <<<<"r">>, <<>>, <<>>>> >>,
        ctor  |-> "validating"],
       [name  |-> <<"N">>,                         \* @register()
        attrs |-> << <<<<"i">>, <<>>, <<>>>> >>,
        ctor  |-> "any"],
       [name  |-> <<"X">>,                         \* no @register at all
        attrs |-> <<>>,
        ctor  |-> "any"] >>

\* the constructor-argument lists the callers pass
ArgLists == { <<>>, << <<"x">> >>, << <<"b","a","d">> >>, << <<"x">>, <<"y">> >> }

\* the text of an exception: the fixed text, the class named in it and the
\* error text formatted into it
Message(text, type, error) == [text |-> text, type |-> type, error |-> error]

NoMessage == Message(None, EmptyStr, None)

\* the value of a variable that holds no bean (Python's None)
NoBean == [id |-> 0, cls |-> EmptyStr, args |-> <<>>]

\* register(*args, **kwargs): f.register = (tuple(args), kwargs)
register(args, kwargs) == <<args, kwargs>>

\* RegisteringType.__init__: every attribute carrying a register property is
\* stored under "name.key"
RECURSIVE RegisteringType(_, _, _)
RegisteringType(reg, name, attrs) ==
    IF Len(attrs) = 0 THEN reg
    ELSE RegisteringType(
            DictSet(reg, name \o <<".">> \o Head(attrs)[1],
                    register(Head(attrs)[2], Head(attrs)[3])),
            name, Tail(attrs))

\* the key request_instance looks up, computed from the registry entry
KeyValue(injection_name, key) ==
    IF key[1] # <<>>
    THEN IF key[2] # <<>>
         THEN injection_name \o Amp \o Join(Amp, key[1]) \o Amp
         ELSE EmptyStr \o Join(Amp, DictValues(key[2]))
    ELSE IF key[2] # <<>>
         THEN injection_name \o Amp \o Join(Amp, DictValues(key[2]))
         ELSE injection_name

\* the key __create_bean stores under: "&".join(key) runs over the characters
\* of the key string it is given
StoreKey(injection_name, key) == injection_name \o Amp \o Join(Amp, Chars(key))

\* reference(*values): what the constructor does with the arguments
Construct(reference, values) ==
    CASE reference.ctor = "one_arg" /\ Len(values) # 1 ->
            [raised |-> "TypeError", message |-> "takes 1 positional argument"]
      [] reference.ctor = "validating" /\ Len(values) > 0 /\ values[1] = <<"b","a","d">> ->
            [raised |-> "BadRequestException", message |-> "bad parameter"]
      [] reference.ctor = "validating" /\ Len(values) > 1 ->
            [raised |-> "ValueError", message |-> "too many values"]
      [] OTHER ->
            [raised |-> None, message |-> None]

\* dict.get(key, None)
BeanGet(beans, key) == IF key \in DOMAIN beans THEN beans[key] ELSE NoBean

\* __create_bean without its "except BadRequestException: raise e" clause
CreateBeanWrapAll(beans, reference, values, injection_name, key, id) ==
    LET c == Construct(reference, values) IN
    IF c.raised # None
    THEN [kind |-> "raise", exc |-> "DependencyInjectionException",
          message |-> Message("Occurred some error when creating", reference.name,
                              c.message),
          bean |-> NoBean, beans |-> beans]
    ELSE LET bean == [id |-> id, cls |-> reference.name, args |-> values]
             k    == StoreKey(injection_name, key)
         IN [kind |-> "return", exc |-> None, message |-> NoMessage, bean |-> bean,
             beans |-> [x \in DOMAIN beans \cup {k} |-> IF x = k THEN bean ELSE beans[x]]]

\* ApplicationContext.__create_bean: the outcome and the active beans after it
CreateBean(beans, reference, values, injection_name, key, id) ==
    LET c == Construct(reference, values) IN
    IF c.raised = "BadRequestException"
    THEN [kind |-> "raise", exc |-> "BadRequestException",
          message |-> Message(c.message, EmptyStr, None), bean |-> NoBean, beans |-> beans]
    ELSE IF c.raised # None
    THEN [kind |-> "raise", exc |-> "DependencyInjectionException",
          message |-> Message("Occurred some error when creating", reference.name,
                              c.message),
          bean |-> NoBean, beans |-> beans]
    ELSE LET bean == [id |-> id, cls |-> reference.name, args |-> values]
             k    == StoreKey(injection_name, key)
         IN [kind |-> "return", exc |-> None, message |-> NoMessage, bean |-> bean,
             beans |-> [x \in DOMAIN beans \cup {k} |-> IF x = k THEN bean ELSE beans[x]]]

\* a loop that takes the first registry entry whatever its class
FirstEntryAnyClass(reg, injection_name) == IF Len(reg) > 0 THEN 1 ELSE 0

\* the first registry entry of the class, 0 when there is none
FirstEntry(reg, injection_name) ==
    IF \E i \in 1..Len(reg) : SplitDotFirst(reg[i][1]) = injection_name
    THEN CHOOSE i \in 1..Len(reg) :
            /\ SplitDotFirst(reg[i][1]) = injection_name
            /\ \A j \in 1..(i - 1) : SplitDotFirst(reg[j][1]) # injection_name
    ELSE 0

\* ApplicationContext.request_instance(reference, [injection_name] + values)
RequestInstanceResult(reg, beans, reference, values, id) ==
    LET injection_name == reference.name
        e == FirstEntry(reg, injection_name)
    IN  IF e = 0
        THEN [kind |-> "raise", exc |-> "DependencyInjectionException",
              message |-> Message("The injection type was not found in registry",
                                  EmptyStr, None),
              bean |-> NoBean, beans |-> beans, invoked |-> FALSE, found |-> FALSE]
        ELSE LET key_value == KeyValue(injection_name, reg[e][2])
                 bean == BeanGet(beans, key_value)
             IN  IF bean = NoBean
                 THEN [invoked |-> TRUE, found |-> FALSE] @@
                      CreateBean(beans, reference, values, injection_name, key_value, id)
                 ELSE [kind |-> "return", exc |-> None, message |-> NoMessage, bean |-> bean,
                       beans |-> beans, invoked |-> FALSE, found |-> TRUE]

NoCall == [name |-> EmptyStr, args |-> <<>>, kind |-> None, exc |-> None,
           message |-> NoMessage, bean |-> NoBean, invoked |-> FALSE, found |-> FALSE]

NoTranslation ==
    [called |-> FALSE, before |-> NoPagination, raised |-> None, data |-> <<>>]

TranslatorIdle ==
    /\ table = <<>>
    /\ request_options = [request_filters |-> <<>>, has_pagination |-> FALSE,
                          pagination |-> NoPagination, return_values |-> <<>>]
    /\ translated = NoTranslation
    /\ response = NoResponse

\* a chalice Request: uri_params and query_params are None or a dict of
\* strings; json_body raises BadRequestError on a payload that is not JSON
\* and is None when the content type is not JSON
NoRequest ==
    [uri_params |-> PyNone, query_params |-> PyNone,
     body |-> [malformed |-> FALSE, raw |-> <<>>, json |-> PyNone]]

NoExtraction ==
    [op |-> None, request |-> NoRequest, pythonic |-> TRUE, raised |-> None,
     parameters |-> PyNone, inspected |-> FALSE, simple_parameters |-> PyNone,
     complex_parameters |-> PyNone, package |-> None,
     pagination |-> NoPagination, validated |-> FALSE]

ControllersIdle == extracted = NoExtraction

\* a SQLAlchemy session, as far as its lifecycle goes
NoSession ==
    [opened |-> FALSE, closed |-> FALSE, rolled_back |-> FALSE, committed |-> FALSE]

\* RequestOptions(): no filters, no pagination, no return values
NoRequestOptions ==
    [request_filters |-> <<>>, has_pagination |-> FALSE,
     pagination |-> NoPagination, return_values |-> <<>>]

\* no call yet; entities is the number of entities passed, is_options whether
\* the request_options argument is a RequestOptions, value what the call
\* returned ("data", "data_and_session", "none", "empty_list", "entity")
NoRepositoryCall ==
    [op |-> None, table_name |-> None, entity_id |-> 0, relationships |-> FALSE,
     clients |-> TRUE, fails |-> FALSE, entities |-> 0,
     is_options |-> FALSE, options |-> NoRequestOptions,
     raised |-> None, session |-> NoSession, value |-> None, data |-> <<>>]

RepositoryIdle ==
    /\ deleted_at = {}
    /\ repository_call = NoRepositoryCall

\* HTTPController.__init__
HttpIdle ==
    /\ http_requests = <<>>
    /\ http_calls = <<>>

\* logging.WARNING
WARNING == 30

NoLoggerCall ==
    [op |-> None, name |-> PyNone, logging_level |-> PyNone, filename |-> None,
     openable |-> TRUE, raised |-> None]

\* SystemLogger.__init__: one logger named DEFAULT_LOGGER_NAME, at the level
\* of LOGGER_LEVEL, which defaults to logging.WARNING
DEFAULT_LOGGER_NAME == PyStr(<<"d","e","f","a","u","l","t">>)

LoggersIdle ==
    /\ loggers = {[name |-> DEFAULT_LOGGER_NAME, level |-> WARNING]}
    /\ logger_call = NoLoggerCall

\* no request_instance call in progress
ResolvingIdle == resolving = <<>>

NoPoolCall ==
    [op |-> None, pattern |-> PyNone, config |-> <<>>, before |-> <<>>,
     raised |-> None, value |-> <<>>]

\* ClientPool(): the clients property creates the empty list on first use
PoolIdle ==
    /\ internal_clients = <<>>
    /\ pool_call = NoPoolCall

NoInspection ==
    [op |-> None, candidates |-> <<>>, given |-> <<>>, after |-> <<>>,
     special_attributes |-> PyNone, table_name |-> None, raised |-> None,
     bean |-> None, tried |-> <<>>]

InspectionIdle == inspection = NoInspection

NoManagerCall == [called |-> FALSE, did |-> <<>>, before |-> <<>>, raised |-> None,
                  logged |-> <<>>]

\* no ComponentManagementController constructed
ManagerIdle ==
    /\ manager_components = <<>>
    /\ manager_result = <<>>
    /\ manager_call = NoManagerCall

LateIdle == ResolvingIdle /\ PoolIdle /\ InspectionIdle /\ ManagerIdle

OuterIdle == RepositoryIdle /\ HttpIdle /\ LoggersIdle /\ LateIdle

MoreIdle == ControllersIdle /\ OuterIdle

\* ApplicationContext.__init__
ContextIdle ==
    /\ registry = <<>>
    /\ active_beans = <<>>
    /\ created = 0
    /\ ret = NoCall
    /\ returned = <<>>

ContextInit ==
    /\ ContextIdle
    /\ OptionsIdle
    /\ TranslatorIdle
    /\ MoreIdle

\* a class statement: the metaclass harvests its registered attributes
DefineClass(i) ==
    /\ \A j \in 1..(i - 1) :
          Classes[j].attrs = <<>> \/ FirstEntry(registry, Classes[j].name) # 0
    /\ FirstEntry(registry, Classes[i].name) = 0
    /\ Classes[i].attrs # <<>>
    /\ registry' = RegisteringType(registry, Classes[i].name, Classes[i].attrs)
    /\ UNCHANGED <<active_beans, created, ret, returned>>
    /\ UNCHANGED <<optVars, trVars, moreVars>>

\* inject(ref, values) calls request_instance(ref, [ref.__name__] + values)
RequestInstance(i, values) ==
    /\ Len(returned) < MaxCalls
    /\ LET r == RequestInstanceResult(registry, active_beans, Classes[i], values, created + 1)
       IN  /\ active_beans' = r.beans
           /\ created' = IF r.invoked /\ r.kind = "return" THEN created + 1 ELSE created
           /\ ret' = [name |-> Classes[i].name, args |-> values, kind |-> r.kind,
                      exc |-> r.exc, message |-> r.message, bean |-> r.bean,
                      invoked |-> r.invoked, found |-> r.found]
           /\ returned' = IF r.kind = "return"
                          THEN Append(returned, [name |-> Classes[i].name, args |-> values,
                                                 bean |-> r.bean])
                          ELSE returned
    /\ UNCHANGED registry
    /\ UNCHANGED <<optVars, trVars, moreVars>>

ContextNext ==
    \/ \E i \in 1..Len(Classes) : DefineClass(i)
    \/ \E i \in 1..Len(Classes), values \in ArgLists : RequestInstance(i, values)

SpecContext == ContextInit /\ [][ContextNext]_vars

(***************************************************************************)
(* Constructing request options                                            *)
(***************************************************************************)
OptionsInit ==
    /\ ContextIdle
    /\ OptionsIdle
    /\ TranslatorIdle
    /\ MoreIdle

\* FilterRequest(request_value, request_operation)
NewFilterRequest(request_value, request_operation) ==
    /\ LET r == FilterRequestInit(request_value, request_operation)
       IN  filter_call' = [called |-> TRUE, request_value |-> request_value,
                           request_operation |-> request_operation,
                           raised |-> r.raised, obj |-> r.obj]
    /\ pagination_call' = NoPaginationCall
    /\ dto_call' = NoDtoCall
    /\ UNCHANGED <<ctxVars, trVars, moreVars>>

\* Pagination(page, page_size, order_by, order_type)
NewPagination(page, page_size, order_by, order_type) ==
    /\ LET r == PaginationInit(page, page_size, order_by, order_type)
       IN  pagination_call' = [called |-> TRUE, page |-> page, page_size |-> page_size,
                               order_by |-> order_by, order_type |-> order_type,
                               raised |-> r.raised, obj |-> r.obj]
    /\ filter_call' = NoFilterCall
    /\ dto_call' = NoDtoCall
    /\ UNCHANGED <<ctxVars, trVars, moreVars>>

\* RequestPagination(page=..., page_size=..., order_by=..., order_type=...)
NewRequestPagination(page, page_size, order_by, order_type) ==
    /\ LET r == RequestPaginationValidate(page, page_size, order_by, order_type)
       IN  dto_call' = [called |-> TRUE, page |-> page, page_size |-> page_size,
                        order_by |-> order_by, order_type |-> order_type,
                        raised |-> r.raised]
    /\ filter_call' = NoFilterCall
    /\ pagination_call' = NoPaginationCall
    /\ UNCHANGED <<ctxVars, trVars, moreVars>>

OptionsNext ==
    \/ \E v \in FilterValues, o \in FilterOperations : NewFilterRequest(v, o)
    \/ \E p \in PageValues, ps \in PageValues, ob \in OrderByValues, ot \in OrderTypeValues :
          NewPagination(p, ps, ob, ot)
    \/ \E p \in {PyNone, PyInt(0), PyInt(1)}, ps \in {PyNone, PyInt(0), PyInt(1)},
          ob \in OrderByValues, ot \in {PyNone, PyStr(<<"a","s","c">>)} :
          NewRequestPagination(p, ps, ob, ot)

SpecRequestOptions == OptionsInit /\ [][OptionsNext]_vars

(***************************************************************************)
(* Translating and serializing request options                             *)
(***************************************************************************)
\* the operands of the filters handed to the translator
TranslatedFilterValues ==
    { PyInt(2), PyStr(<<"%">>), PyList(<<PyInt(1), PyInt(2)>>), PyList(<<PyInt(3)>>) }

\* request_filters: every dict of at most one FilterRequest the constructor
\* accepts, on the primary key
RequestFilters ==
    {<<>>} \cup
    { << <<<<"i","d">>, FilterRequestInit(v, o).obj>> >> :
        <<v, o>> \in { vo \in TranslatedFilterValues \X FilterOperations :
                         FilterRequestInit(vo[1], vo[2]).raised = None } }

\* the page numbers and sizes of the paginations handed to the translator
TranslatedPageValues == {PyNone} \cup {PyInt(n) : n \in -1..MaxPage}

TranslatedOrders ==
    { <<PyNone, PyNone>>, <<PyStr(<<"i","d">>), OrderTypeDESCENDING>>,
      <<PyStr(<<"o","r","d","e","r">>), OrderTypeASCENDING>> }

\* the Pagination objects the constructor builds from them
Paginations ==
    { PaginationInit(a[1], a[2], a[3][1], a[3][2]).obj :
        a \in { b \in TranslatedPageValues \X TranslatedPageValues \X TranslatedOrders :
                  PaginationInit(b[1], b[2], b[3][1], b[3][2]).raised = None } }

\* RequestOptions(request_filters, pagination, return_values=...) over a table
TranslatorInit ==
    /\ ContextIdle
    /\ OptionsIdle
    /\ MoreIdle
    /\ table \in Tables
    /\ \E f \in RequestFilters, rv \in {<<>>, <<"id">>} :
          \/ request_options = [request_filters |-> f, has_pagination |-> FALSE,
                                pagination |-> NoPagination, return_values |-> rv]
          \/ \E pg \in Paginations :
                request_options = [request_filters |-> f, has_pagination |-> TRUE,
                                   pagination |-> pg, return_values |-> rv]
    /\ translated = NoTranslation
    /\ response = NoResponse

\* mysql_translator.translate_operation((request_options, entity, query, session))
TranslateOperation ==
    /\ LET r == TranslateResult(request_options, table)
       IN  /\ request_options' = [request_options EXCEPT !.pagination = r.pagination]
           /\ translated' = [called |-> TRUE, before |-> request_options.pagination,
                             raised |-> r.raised, data |-> r.data]
    /\ UNCHANGED <<table, response>>
    /\ UNCHANGED <<ctxVars, optVars, moreVars>>

\* request_options.pagination.serialize(path)
Serialize(path) ==
    /\ request_options.has_pagination
    /\ LET r == SerializeResult(request_options.pagination, path)
       IN  /\ request_options' = [request_options EXCEPT !.pagination = r.pagination]
           /\ response' = r.response
    /\ UNCHANGED <<table, translated>>
    /\ UNCHANGED <<ctxVars, optVars, moreVars>>

TranslatorNext ==
    \/ TranslateOperation
    \/ Serialize("/items")

SpecTranslator == TranslatorInit /\ [][TranslatorNext]_vars

(***************************************************************************)
(* Properties of the context                                               *)
(***************************************************************************)
\* the class name heads some registry entry
Registered(name) ==
    \E e \in 1..Len(registry) : SplitDotFirst(registry[e][1]) = name

\* the beans the active-bean table holds
StoredBeans == {active_beans[k] : k \in DOMAIN active_beans}

\* C1: two sequential resolutions of the same component with the same
\* constructor arguments return the same instance; the second one finds the
\* bean the first one stored and constructs nothing.
C1_SameInstanceForSameArguments ==
    /\ \A i, j \in 1..Len(returned) :
          (returned[i].name = returned[j].name /\ returned[i].args = returned[j].args)
              => returned[i].bean.id = returned[j].bean.id
    /\ (/\ Len(returned) >= 2
        /\ ret.kind = "return"
        /\ \E i \in 1..(Len(returned) - 1) :
              returned[i].name = ret.name /\ returned[i].args = ret.args)
          => (ret.found /\ ~ret.invoked)

\* C2: resolutions of the same component with different constructor
\* arguments return distinct instances, each built from its own arguments,
\* and both stay retrievable from the active-bean table.
C2_DistinctInstancesBothRetrievable ==
    \A i, j \in 1..Len(returned) :
        (returned[i].name = returned[j].name /\ returned[i].args # returned[j].args)
            => /\ returned[i].bean.id # returned[j].bean.id
               /\ returned[i].bean.args = returned[i].args
               /\ returned[j].bean.args = returned[j].args
               /\ returned[i].bean \in StoredBeans
               /\ returned[j].bean \in StoredBeans

\* C3: resolving a class name that heads no registry entry raises the
\* dependency-injection error, calls no constructor and leaves the
\* active-bean table and the registry as they were.
C3_UnregisteredFailsWithoutEffect ==
    [][\A i \in 1..Len(Classes), values \in ArgLists :
          (RequestInstance(i, values) /\ ~Registered(Classes[i].name))
              => /\ ret'.kind = "raise"
                 /\ ret'.exc = "DependencyInjectionException"
                 /\ ret'.message.text = "The injection type was not found in registry"
                 /\ ~ret'.invoked
                 /\ created' = created
                 /\ active_beans' = active_beans
                 /\ registry' = registry]_vars

C3_Witness ==
    /\ ret.name = <<"X">>
    /\ ~Registered(ret.name)
    /\ ret.exc = "DependencyInjectionException"
    /\ Len(registry) > 0

\* C4: when the constructor raises, a bad-request error comes out unchanged
\* and any other error comes out as DependencyInjectionException carrying
\* the original message; the active-bean table gains no entry.
C4_ConstructorErrors ==
    [][\A i \in 1..Len(Classes), values \in ArgLists :
          (/\ RequestInstance(i, values)
           /\ ret'.invoked
           /\ Construct(Classes[i], values).raised # None)
              => /\ ret'.kind = "raise"
                 /\ IF Construct(Classes[i], values).raised = "BadRequestException"
                    THEN /\ ret'.exc = "BadRequestException"
                         /\ ret'.message.text = Construct(Classes[i], values).message
                    ELSE /\ ret'.exc = "DependencyInjectionException"
                         /\ ret'.message.error = Construct(Classes[i], values).message
                 /\ active_beans' = active_beans
                 /\ created' = created]_vars

C4_Witness ==
    /\ ret.invoked
    /\ ret.exc = "DependencyInjectionException"
    /\ ret.message.error = "too many values"
    /\ active_beans # <<>>

(***************************************************************************)
(* Properties of the request options constructors                          *)
(***************************************************************************)
\* the name of the operator a FilterRequest call was given
OperationName(op) ==
    IF op.t = "RequestOperations"
    THEN EnumName(RequestOperationsItems, op)
    ELSE EnumName(MySQLRequestOperationsItems, op)

IsOperation(op) == op.t \in {"RequestOperations", "MySQLRequestOperations"}

\* C5: with a list operand, FilterRequest accepts the operators CONTAINS and
\* BETWEEN of the base set and of the MySQL set, and raises
\* InputParameterException for every other operator of the two sets.
C5_ListOperandOnlyWithContainsOrBetween ==
    (/\ filter_call.called
     /\ filter_call.request_value.t = "list"
     /\ IsOperation(filter_call.request_operation))
        => IF OperationName(filter_call.request_operation) \in {"CONTAINS", "BETWEEN"}
           THEN filter_call.raised = None
           ELSE filter_call.raised = "InputParameterException"

\* C6: FilterRequest with CONTAINS or BETWEEN and an operand that is no list
\* raises a client input error.
C6_ScalarOperandRejectedForContainsBetween ==
    (/\ filter_call.called
     /\ filter_call.request_value.t # "list"
     /\ IsOperation(filter_call.request_operation)
     /\ OperationName(filter_call.request_operation) \in {"CONTAINS", "BETWEEN"})
        => filter_call.raised = "InputParameterException"

\* C7: for page and page_size among None and the integers, Pagination raises
\* InputParameterException exactly when one of the two is None and the other
\* is not.
C7_PageAndPageSizeBothOrNeither ==
    (/\ pagination_call.called
     /\ pagination_call.page.t \in {"NoneType", "int"}
     /\ pagination_call.page_size.t \in {"NoneType", "int"}
     /\ pagination_call.order_type.t \in {"NoneType", "OrderType"})
        => ((pagination_call.raised = "InputParameterException")
              <=> ((pagination_call.page = PyNone) # (pagination_call.page_size = PyNone)))

\* C8: Pagination with order_type set and order_by unset, or order_by set
\* and order_type unset, raises a client error.
C8_OrderByAndOrderTypeBothOrNeither ==
    (/\ pagination_call.called
     /\ \/ (pagination_call.order_type # PyNone /\ pagination_call.order_by = PyNone)
        \/ (pagination_call.order_by # PyNone /\ pagination_call.order_type = PyNone))
        => pagination_call.raised = "InputParameterException"

(***************************************************************************)
(* Properties of the translator and of Pagination.serialize                *)
(***************************************************************************)
\* the last translate_operation call had no filters, a table with rows, and a
\* pagination whose page and page_size are integers of at least 1
PagedWithoutFilters ==
    /\ translated.called
    /\ request_options.request_filters = <<>>
    /\ request_options.has_pagination
    /\ Len(table) > 0
    /\ translated.before.page.t = "int" /\ translated.before.page.i >= 1
    /\ translated.before.page_size.t = "int" /\ translated.before.page_size.i >= 1

\* the rows of the table in the order the pagination asks for
OrderedTable ==
    LET before == translated.before
    IN  IF before.order_by = PyNone \/ before.order_type = PyNone THEN table
        ELSE QueryOrder(OrderByOperation(NewQuery(table), GetAttr(before.order_by.s),
                                         before.order_type))

\* C9: for a table of N > 0 rows, no filters, page p >= 1 and page_size
\* s >= 1, translate_operation succeeds exactly when p <= ceil(N/s); it then
\* returns the rows at positions (p-1)*s up to min(p*s, N) of the query order
\* and stores them in pagination.results; otherwise it raises
\* DatabaseException.
C9_PageWindowOrDatabaseException ==
    PagedWithoutFilters =>
        LET p == translated.before.page.i
            s == translated.before.page_size.i
            N == Len(table)
            upto == IF p * s < N THEN p * s ELSE N
            rows == [k \in 1..(upto - (p - 1) * s) |-> OrderedTable[(p - 1) * s + k]]
        IN  IF p <= CeilDiv(N, s)
            THEN /\ translated.raised = None
                 /\ request_options.pagination.results = rows
                 /\ Len(translated.data) = Len(rows)
                 /\ request_options.return_values = <<>> => translated.data = rows
                 /\ request_options.return_values # <<>> =>
                        \A k \in 1..Len(rows) : translated.data[k].id = rows[k].id
            ELSE translated.raised = "DatabaseException"

\* a second page that is the last and only partly filled has been returned
C9_Witness ==
    /\ PagedWithoutFilters
    /\ translated.raised = None
    /\ translated.before.page.i = 2
    /\ translated.before.page_size.i = 3
    /\ Len(table) = 5
    /\ Len(translated.data) = 2
    /\ request_options.pagination.results = <<table[4], table[5]>>

\* the last serialize call was on a pagination with page and page_size set
SerializedWithPageAndSize ==
    /\ response.called
    /\ response.of.page.t = "int"
    /\ response.of.page_size.t = "int"

\* total_size as __get_page_value reads it
SerializedTotalSize ==
    IF response.of.total_size = PyNone THEN Len(response.of.results)
    ELSE response.of.total_size.i

IsNull(url) == url.null

IsPage(url, n) == ~url.null /\ url.paged /\ url.page = n

\* C10 as stated: with page and page_size set, first and prev are null on
\* page 1, last and next are null on the final page ceil(total_size/page_size),
\* and on every other page first is 1, prev is page-1, next is page+1 and last
\* is the final page.
C10_AsStated ==
    SerializedWithPageAndSize =>
        /\ response.raised = None
        /\ response.of.page_size.i # 0
        /\ LET page == response.of.page.i
               final == CeilDiv(SerializedTotalSize, response.of.page_size.i)
               urls == response.urls
           IN  /\ page = 1 => IsNull(urls.first) /\ IsNull(urls.prev)
               /\ page # 1 => IsPage(urls.first, 1) /\ IsPage(urls.prev, page - 1)
               /\ page = final => IsNull(urls.last) /\ IsNull(urls.next)
               /\ page # final => IsPage(urls.last, final) /\ IsPage(urls.next, page + 1)

\* C10, amended: with integer page and page_size, page 0 gives the five plain
\* urls; otherwise page_size 0 raises ZeroDivisionError; otherwise first and
\* prev are null exactly when page <= 1 (else 1 and page-1) and last and next
\* are null exactly when page >= ceil(total_size/page_size) (else the final
\* page and page+1).
C10_NullAtOrBeyondTheEnds ==
    SerializedWithPageAndSize =>
        LET page == response.of.page.i
            size == response.of.page_size.i
            urls == response.urls
        IN  IF page = 0
            THEN /\ response.raised = None
                 /\ \A name \in DOMAIN urls : ~urls[name].null /\ ~urls[name].paged
            ELSE IF size = 0
            THEN response.raised = "ZeroDivisionError"
            ELSE LET final == CeilDiv(SerializedTotalSize, size)
                 IN  /\ response.raised = None
                     /\ IsPage(urls.self, page)
                     /\ page <= 1 => IsNull(urls.first) /\ IsNull(urls.prev)
                     /\ page > 1 => IsPage(urls.first, 1) /\ IsPage(urls.prev, page - 1)
                     /\ page >= final => IsNull(urls.last) /\ IsNull(urls.next)
                     /\ page < final => /\ IsPage(urls.last, final)
                                        /\ IsPage(urls.next, page + 1)

\* a page in the middle has been serialized: all four links carry a page
C10_Witness ==
    /\ SerializedWithPageAndSize
    /\ response.raised = None
    /\ response.of.page.i = 2
    /\ IsPage(response.urls.first, 1)
    /\ IsPage(response.urls.prev, 1)
    /\ IsPage(response.urls.next, 3)
    /\ IsPage(response.urls.last, 3)
    /\ Len(response.results) = 2

\* the value the query field of the last response carries under a name, None
\* (the Python value) when it carries none
QueryField(name) ==
    IF \E k \in 1..Len(response.query) : response.query[k][1] = name
    THEN response.query[CHOOSE k \in 1..Len(response.query) :
                            response.query[k][1] = name][2]
    ELSE PyNone

QueryNames == {response.query[k][1] : k \in 1..Len(response.query)}

\* C11: the query field of serialize(path) carries page and page_size as the
\* pagination holds them (and order_by / order_type when set), never carries
\* total_size or results, and a Pagination rebuilt from the query field has
\* the same page and page_size; with page and page_size of at least 1
\* serialize returns such a response.
C11_QueryFieldRoundTrip ==
    /\ (/\ SerializedWithPageAndSize
        /\ response.of.page.i >= 1
        /\ response.of.page_size.i >= 1) => response.raised = None
    /\ (SerializedWithPageAndSize /\ response.raised = None) =>
          LET of == response.of
              rebuilt == PaginationInit(QueryField("page"), QueryField("page_size"),
                                        PyNone, PyNone)
          IN  /\ QueryField("page") = of.page
              /\ QueryField("page_size") = of.page_size
              /\ QueryField("order_by") = of.order_by
              /\ of.order_type = PyNone => "order_type" \notin QueryNames
              /\ of.order_type # PyNone => QueryField("order_type") = PyStr(of.order_type.s)
              /\ QueryNames \subseteq {"page", "page_size", "order_by", "order_type"}
              /\ rebuilt.raised = None
              /\ rebuilt.obj.page = of.page
              /\ rebuilt.obj.page_size = of.page_size

\* a translated page with an order has been serialized: total_size and
\* results are set on the pagination and absent from the query field
C11_Witness ==
    /\ SerializedWithPageAndSize
    /\ response.raised = None
    /\ response.of.total_size # PyNone
    /\ response.of.results # <<>>
    /\ response.of.page = PyInt(2)
    /\ QueryField("page") = PyInt(2)
    /\ QueryField("page_size") = response.of.page_size
    /\ QueryField("order_type") = PyStr(<<"d","e","s","c">>)

\* the last translate_operation call had filters and a pagination whose page
\* and page_size are integers
PagedWithFilters ==
    /\ translated.called
    /\ request_options.request_filters # <<>>
    /\ request_options.has_pagination
    /\ translated.before.page.t = "int"
    /\ translated.before.page_size.t = "int"

\* the filters applied to the whole table: the error the query builder raises
\* and the query narrowed to the matching rows
FilteredTable == ApplyFilters(NewQuery(table), request_options.request_filters)

\* C20 as stated, for page and page_size of at least 1 and filters the query
\* builder accepts: translate_operation raises DatabaseException exactly when
\* page > ceil(U/page_size), U the unfiltered row count, and total_size is the
\* number of rows matching the filters.
C20_AsStated ==
    (/\ PagedWithFilters
     /\ FilteredTable.raised = None
     /\ translated.before.page.i >= 1
     /\ translated.before.page_size.i >= 1) =>
        /\ (translated.raised = "DatabaseException") <=>
               (translated.before.page.i >
                    CeilDiv(Len(table), translated.before.page_size.i))
        /\ request_options.pagination.total_size = PyInt(Len(FilteredTable.query.rows))

\* C20, amended: with filters present and integer page and page_size, a filter
\* the query builder rejects raises that error; otherwise total_size is the
\* number of rows matching the filters, and DatabaseException is raised
\* exactly when the table is not empty, page and page_size are not 0, and
\* page > ceil(U/page_size) for the unfiltered row count U: on an empty
\* table no page is out of range.
C20_BoundOnUnfilteredCountOfNonEmptyTable ==
    PagedWithFilters =>
        LET page == translated.before.page.i
            size == translated.before.page_size.i
            U == Len(table)
        IN  IF FilteredTable.raised # None
            THEN translated.raised = FilteredTable.raised
            ELSE /\ request_options.pagination.total_size =
                        PyInt(Len(FilteredTable.query.rows))
                 /\ (translated.raised = "DatabaseException") <=>
                        (/\ U > 0
                         /\ page # 0
                         /\ size # 0
                         /\ page > CeilDiv(U, size))

\* page 2 of size 1 exists in a table of 5 rows although one row matches the
\* filter: the call succeeds with no rows and total_size 1
C20_Witness ==
    /\ PagedWithFilters
    /\ translated.raised = None
    /\ Len(table) = 5
    /\ translated.before.page = PyInt(2)
    /\ translated.before.page_size = PyInt(1)
    /\ request_options.pagination.total_size = PyInt(1)
    /\ translated.data = <<>>

(***************************************************************************)
(* Parameter extraction (chalicelib/controllers/validation.py) and the     *)
(* bean controller (chalicelib/controllers/translator.py)                  *)
(***************************************************************************)
\* a dict: its items in insertion order
PyDict(items) == [t |-> "dict", i |-> 0, s |-> <<>>, items |-> items]

PyTrue == [t |-> "bool", i |-> 1, s |-> <<>>, items |-> <<>>]

PyFloat(chars) == [t |-> "float", i |-> 0, s |-> chars, items |-> <<>>]

Entry(name, value) == [name |-> name, value |-> value]

\* d[name] = value
ItemsSet(items, name, value) ==
    IF \E k \in 1..Len(items) : items[k].name = name
    THEN [k \in 1..Len(items) |->
            IF items[k].name = name THEN Entry(name, value) ELSE items[k]]
    ELSE Append(items, Entry(name, value))

\* {**items, **more}
RECURSIVE ItemsUpdate(_, _)
ItemsUpdate(items, more) ==
    IF Len(more) = 0 THEN items
    ELSE ItemsUpdate(ItemsSet(items, Head(more).name, Head(more).value), Tail(more))

UpperCase == <<"A","B","C","D","E","F","G","H","I","J","K","L","M",
               "N","O","P","Q","R","S","T","U","V","W","X","Y","Z">>

LowerCase == <<"a","b","c","d","e","f","g","h","i","j","k","l","m",
               "n","o","p","q","r","s","t","u","v","w","x","y","z">>

IsUpper(c) == \E k \in 1..Len(UpperCase) : UpperCase[k] = c

ToLower(c) ==
    IF IsUpper(c) THEN LowerCase[CHOOSE k \in 1..Len(UpperCase) : UpperCase[k] = c] ELSE c

\* pattern.sub("_", parameter).lower() for pattern (?<!^)(?=[A-Z])
RECURSIVE SnakeFrom(_, _)
SnakeFrom(chars, at_start) ==
    IF Len(chars) = 0 THEN <<>>
    ELSE (IF ~at_start /\ IsUpper(Head(chars)) THEN <<"_">> ELSE <<>>)
             \o <<ToLower(Head(chars))>> \o SnakeFrom(Tail(chars), FALSE)

\* ParameterController.camel_case_to_snake_case
camel_case_to_snake_case(parameter) == SnakeFrom(parameter, TRUE)

\* float(text) succeeds: digits with one decimal point among them
IsFloatText(chars) ==
    /\ \E k \in 1..Len(chars) : IsDigit(chars[k])
    /\ \A k \in 1..Len(chars) : IsDigit(chars[k]) \/ chars[k] = "."
    /\ Cardinality({k \in 1..Len(chars) : chars[k] = "."}) <= 1

\* RequestParameter.accurate_type: the converted VALUE int(type) or
\* float(type), or the argument itself; a non-string, non-number argument
\* makes int() raise TypeError
accurate_type(value) ==
    CASE value.t \in {"int", "bool"} -> [raised |-> None, type |-> PyInt(value.i)]
      [] value.t = "str" ->
            IF IntOf(value).raised = None
            THEN [raised |-> None, type |-> PyInt(IntOf(value).i)]
            ELSE IF IsFloatText(value.s)
            THEN [raised |-> None, type |-> PyFloat(value.s)]
            ELSE [raised |-> None, type |-> value]
      [] OTHER -> [raised |-> "TypeError", type |-> PyNone]

\* calling a value: none of these values is callable
Call(callee, argument) == [raised |-> "TypeError", value |-> PyNone]

\* RequestParameter.__init__(name, value, required)
RequestParameterInit(name, value, required) ==
    LET type == accurate_type(value)
    IN  IF type.raised # None THEN [raised |-> type.raised, obj |-> PyNone]
        ELSE LET converted == Call(type.type, value)
             IN  IF converted.raised # None
                 THEN [raised |-> converted.raised, obj |-> PyNone]
                 ELSE [raised |-> None,
                       obj |-> PyDict(<<Entry(<<"n","a","m","e">>, PyStr(name)),
                                       Entry(<<"v","a","l","u","e">>, converted.value)>>)]

\* "value, required = properties"
Unpack2(properties) ==
    CASE properties.t = "str" ->
            IF Len(properties.s) = 2
            THEN [raised |-> None, first |-> PyStr(<<properties.s[1]>>),
                  second |-> PyStr(<<properties.s[2]>>)]
            ELSE [raised |-> "ValueError", first |-> PyNone, second |-> PyNone]
      [] properties.t = "list" ->
            IF Len(properties.items) = 2
            THEN [raised |-> None, first |-> properties.items[1],
                  second |-> properties.items[2]]
            ELSE [raised |-> "ValueError", first |-> PyNone, second |-> PyNone]
      [] properties.t = "dict" ->
            IF Len(properties.items) = 2
            THEN [raised |-> None, first |-> PyStr(properties.items[1].name),
                  second |-> PyStr(properties.items[2].name)]
            ELSE [raised |-> "ValueError", first |-> PyNone, second |-> PyNone]
      [] OTHER -> [raised |-> "TypeError", first |-> PyNone, second |-> PyNone]

\* the loop of ParameterController.__init__ over parameters.items()
RECURSIVE ParameterLoop(_, _, _)
ParameterLoop(items, pythonic, parameters) ==
    IF Len(items) = 0 THEN [raised |-> None, parameters |-> PyList(parameters)]
    ELSE LET properties == Unpack2(Head(items).value)
             name == IF pythonic THEN camel_case_to_snake_case(Head(items).name)
                     ELSE Head(items).name
             request_parameter == RequestParameterInit(name, properties.first,
                                                       properties.second)
         IN  IF properties.raised # None
             THEN [raised |-> properties.raised, parameters |-> PyNone]
             ELSE IF request_parameter.raised # None
             THEN [raised |-> request_parameter.raised, parameters |-> PyNone]
             ELSE ParameterLoop(Tail(items), pythonic,
                                Append(parameters, request_parameter.obj))

\* ParameterController.__init__(parameters, pythonic): the error raised or
\* self.parameters
ParameterControllerInit(parameters, pythonic) ==
    IF parameters.t # "dict" THEN [raised |-> "AttributeError", parameters |-> PyNone]
    ELSE ParameterLoop(parameters.items, pythonic, <<>>)

\* {parameter: (value, True) for parameter, value in parameters}: the loop
\* runs over the keys of the dict and unpacks each key
RECURSIVE UriComprehension(_, _)
UriComprehension(items, built) ==
    IF Len(items) = 0 THEN [raised |-> None, dict |-> PyDict(built)]
    ELSE LET key == Unpack2(PyStr(Head(items).name))
         IN  IF key.raised # None THEN [raised |-> key.raised, dict |-> PyNone]
             ELSE UriComprehension(Tail(items),
                                   ItemsSet(built, key.first.s,
                                            PyList(<<key.second, PyTrue>>)))

\* PathParameterController.__init__(request, pythonic)
PathParameterControllerInit(request, pythonic) ==
    LET parameters == IF request.uri_params = PyNone THEN PyDict(<<>>)
                      ELSE request.uri_params
        built == UriComprehension(parameters.items, <<>>)
    IN  IF built.raised # None THEN [raised |-> built.raised, parameters |-> PyNone]
        ELSE ParameterControllerInit(built.dict, pythonic)

\* ParameterController.__init__(self, self, parameters, pythonic): one
\* positional argument too many
ParameterControllerInitWithSelf(parameters, pythonic) ==
    [raised |-> "TypeError", parameters |-> PyNone]

\* QueryParameterController.__init__(request, configuration=None, pythonic)
QueryParameterControllerInit(request, pythonic) ==
    LET configuration == <<>>
        parameters == IF request.query_params = PyNone THEN PyDict(<<>>)
                      ELSE request.query_params
        query_parameters_allowed == {configuration[k] : k \in 1..Len(configuration)}
        query_parameters_required == {configuration[k] : k \in 1..Len(configuration)}
        Name(k) == IF pythonic THEN camel_case_to_snake_case(parameters.items[k].name)
                   ELSE parameters.items[k].name
    IN  IF \E k \in 1..Len(parameters.items) : Name(k) \notin query_parameters_allowed
        THEN [raised |-> "BadRequestException", parameters |-> PyNone]
        ELSE IF query_parameters_required # {}
        THEN [raised |-> "BadRequestException", parameters |-> PyNone]
        ELSE ParameterControllerInitWithSelf(parameters, pythonic)

\* parameters.get(name, default) on a dict of query parameters
ParametersGet(parameters, name, default) ==
    IF \E k \in 1..Len(parameters.items) : parameters.items[k].name = name
    THEN (CHOOSE e \in {parameters.items[k] : k \in 1..Len(parameters.items)} :
             e.name = name).value
    ELSE default

PAGE_ATTRIBUTE == <<"p","a","g","e">>

PAGE_SIZE_ATTRIBUTE == <<"p","a","g","e","_","s","i","z","e">>

ORDER_BY_ATTRIBUTE == <<"o","r","d","e","r","_","b","y">>

ORDER_TYPE_ATTRIBUTE == <<"o","r","d","e","r","_","t","y","p","e">>

\* PaginationController.__init_page and __init_page_size: the attribute after
\* the conversion, or the error raised
InitPageAttribute(parameters, name) ==
    LET got == ParametersGet(parameters, name, PyNone)
    IN  IF ~Truthy(got) THEN [raised |-> None, value |-> got]
        ELSE IF IntOf(got).raised = "ValueError"
        THEN [raised |-> "BadRequestException", value |-> got]
        ELSE IF IntOf(got).raised # None
        THEN [raised |-> IntOf(got).raised, value |-> got]
        ELSE [raised |-> None, value |-> PyInt(IntOf(got).i)]

\* PaginationController.__init_pagination(parameters, pagination)
InitPagination(parameters, pagination) ==
    LET page == InitPageAttribute(parameters, PAGE_ATTRIBUTE)
        page_size == InitPageAttribute(parameters, PAGE_SIZE_ATTRIBUTE)
        order_by == ParametersGet(parameters, ORDER_BY_ATTRIBUTE, PyNone)
        order_type == ParametersGet(parameters, ORDER_TYPE_ATTRIBUTE, OrderTypeASCENDING)
        set == [pagination EXCEPT !.page = page.value, !.page_size = page_size.value,
                                  !.order_by = order_by, !.order_type = order_type]
    IN  IF page.raised # None THEN [raised |-> page.raised, pagination |-> pagination]
        ELSE IF page_size.raised # None
        THEN [raised |-> page_size.raised, pagination |-> pagination]
        ELSE IF Truthy(page.value) /\ ~Truthy(page_size.value)
        THEN [raised |-> "BadRequestException", pagination |-> pagination]
        ELSE IF order_type = PyNone /\ ~Truthy(order_by)
        THEN [raised |-> "BadRequestException", pagination |-> pagination]
        ELSE [raised |-> None, pagination |-> set]

\* PaginationController.__init__(request): its own validation, then
\* QueryParameterController.__init__(request)
PaginationControllerInit(request) ==
    LET parameters == request.query_params
        pagination == PaginationInit(PyNone, PyNone, PyNone, PyNone).obj
        own == IF Truthy(parameters) THEN InitPagination(parameters, pagination)
               ELSE [raised |-> None, pagination |-> pagination]
        super == QueryParameterControllerInit(request, TRUE)
    IN  IF own.raised # None
        THEN [raised |-> own.raised, validated |-> FALSE, pagination |-> NoPagination]
        ELSE [raised |-> super.raised, validated |-> TRUE, pagination |-> own.pagination]

\* BodyController.__init__(request)
BodyControllerInit(request) ==
    IF request.body.malformed
    THEN [raised |-> "BadRequestException", parameters |-> PyNone]
    ELSE ParameterControllerInit(request.body.json, TRUE)

\* the parameter controllers, in the order validation.py defines them; each
\* registers its __init__ and requires the request as constructor argument
ControllerClasses ==
    << [name  |-> <<"PathParameterController">>,
        attrs |-> << <<<<"__init__">>, << <<"uri">> >>, <<>>>> >>,
        ctor  |-> "one_arg"],
       [name  |-> <<"QueryParameterController">>,
        attrs |-> << <<<<"__init__">>, << <<"query">> >>, <<>>>> >>,
        ctor  |-> "one_arg"],
       [name  |-> <<"PaginationController">>,
        attrs |-> << <<<<"__init__">>, << <<"pagination">> >>, <<>>>> >>,
        ctor  |-> "one_arg"],
       [name  |-> <<"BodyController">>,
        attrs |-> << <<<<"__init__">>, << <<"singleton">> >>, <<>>>> >>,
        ctor  |-> "one_arg"] >>

\* the registry once chalicelib.controllers.validation is imported
RECURSIVE RegisterClasses(_, _)
RegisterClasses(reg, classes) ==
    IF Len(classes) = 0 THEN reg
    ELSE RegisterClasses(RegisteringType(reg, Head(classes).name, Head(classes).attrs),
                         Tail(classes))

\* the decorators of BeanController.__init__, evaluated when the class body
\* runs: inject(ref) asks the context for an instance of ref built from no
\* arguments; the first that fails ends the class statement
RECURSIVE InjectAll(_, _, _, _)
InjectAll(reg, beans, classes, id) ==
    IF Len(classes) = 0 THEN [kind |-> "return", exc |-> None, beans |-> beans]
    ELSE LET r == RequestInstanceResult(reg, beans, Head(classes), <<>>, id)
         IN  IF r.kind = "raise" THEN [kind |-> "raise", exc |-> r.exc, beans |-> beans]
             ELSE InjectAll(reg, r.beans, Tail(classes), id + 1)

\* the references of the inject decorators of BeanController.__init__
InjectedControllers ==
    SelectSeq(ControllerClasses,
              LAMBDA c : c.name \in {<<"PathParameterController">>,
                                     <<"QueryParameterController">>,
                                     <<"BodyController">>})

\* the class statement of BeanController
BeanControllerClass ==
    InjectAll(RegisterClasses(<<>>, ControllerClasses), <<>>, InjectedControllers, 1)

\* BeanController.ROOT_PACKAGES
ROOT_PACKAGES == <<"dto", "domain">>

\* the outcome of a call that raised before inspect_model was reached
Raised(error) ==
    [raised |-> error, inspected |-> FALSE, simple_parameters |-> PyNone,
     complex_parameters |-> PyNone, package |-> None]

\* BeanController.create_bean(request), on the BeanController the class
\* statement leaves: an exception of the class statement leaves none; the
\* injected controllers have no method process
create_bean(request) ==
    IF BeanControllerClass.kind = "raise" THEN Raised(BeanControllerClass.exc)
    ELSE Raised("AttributeError")

\* the requests: uri and query parameters of the gateway events, and bodies
\* that are a JSON object, not JSON, absent, or a JSON list
Str(chars) == PyStr(chars)

UriParams ==
    { PyNone, PyDict(<<>>),
      PyDict(<<Entry(<<"i","d">>, Str(<<"3">>))>>),
      PyDict(<<Entry(<<"i","d","R","e","c","u","r","s","o">>, Str(<<"2">>))>>) }

QueryParams ==
    { PyNone, PyDict(<<>>),
      PyDict(<<Entry(<<"i","d","R","e","c","u","r","s","o">>, Str(<<"2">>)),
               Entry(<<"p","r","e","c","i","o">>, Str(<<"6","6">>)),
               Entry(<<"t","o","p","_","h","e","i","g","h","t">>,
                     Str(<<"1","0",".","5">>))>>),
      PyDict(<<Entry(<<"i","d">>, Str(<<"7">>))>>) }

Bodies ==
    { [malformed |-> TRUE, raw |-> <<"a","b","c","1","2","3","4">>, json |-> PyNone],
      [malformed |-> FALSE, raw |-> <<>>, json |-> PyNone],
      [malformed |-> FALSE, raw |-> <<"{","}">>, json |-> PyDict(<<>>)],
      [malformed |-> FALSE, raw |-> <<"{","u","p","}">>,
       json |-> PyDict(<<Entry(<<"u","s","e","r","n","a","m","e">>,
                               Str(<<"a","d","m","i","n">>)),
                         Entry(<<"p","a","s","s","w","o","r","d">>,
                               Str(<<"a","d","m","i","n">>))>>)],
      [malformed |-> FALSE, raw |-> <<"{","i","d","}">>,
       json |-> PyDict(<<Entry(<<"i","d">>, Str(<<"4","2">>))>>)],
      [malformed |-> FALSE, raw |-> <<"[","1","]">>, json |-> PyList(<<PyInt(1)>>)] }

Requests ==
    { [uri_params |-> u, query_params |-> q, body |-> b] :
        u \in UriParams, q \in QueryParams, b \in Bodies }

ControllersInit ==
    /\ ContextIdle
    /\ OptionsIdle
    /\ TranslatorIdle
    /\ ControllersIdle
    /\ OuterIdle

\* PathParameterController(request, pythonic)
PathParameters(request, pythonic) ==
    /\ LET r == PathParameterControllerInit(request, pythonic)
       IN  extracted' = [NoExtraction EXCEPT !.op = "path", !.request = request,
                                             !.pythonic = pythonic, !.raised = r.raised,
                                             !.parameters = r.parameters]
    /\ UNCHANGED <<ctxVars, optVars, trVars, outerVars>>

\* QueryParameterController(request, pythonic=pythonic)
QueryParameters(request, pythonic) ==
    /\ LET r == QueryParameterControllerInit(request, pythonic)
       IN  extracted' = [NoExtraction EXCEPT !.op = "query", !.request = request,
                                             !.pythonic = pythonic, !.raised = r.raised,
                                             !.parameters = r.parameters]
    /\ UNCHANGED <<ctxVars, optVars, trVars, outerVars>>

\* BodyController(request)
BodyParameters(request) ==
    /\ LET r == BodyControllerInit(request)
       IN  extracted' = [NoExtraction EXCEPT !.op = "body", !.request = request,
                                             !.raised = r.raised,
                                             !.parameters = r.parameters]
    /\ UNCHANGED <<ctxVars, optVars, trVars, outerVars>>

\* BeanController().create_bean(request)
CreateBeanFromRequest(request) ==
    /\ LET r == create_bean(request)
       IN  extracted' = [NoExtraction EXCEPT !.op = "create_bean", !.request = request,
                                             !.raised = r.raised,
                                             !.inspected = r.inspected,
                                             !.simple_parameters = r.simple_parameters,
                                             !.complex_parameters = r.complex_parameters,
                                             !.package = r.package]
    /\ UNCHANGED <<ctxVars, optVars, trVars, outerVars>>

\* the query strings a paged endpoint is called with
PaginationQueries ==
    LET Giving(name, values) == {<<>>} \cup {<<Entry(name, Str(v))>> : v \in values}
    IN  { PyDict(p \o ps \o ob \o ot) :
            p \in Giving(PAGE_ATTRIBUTE, {<<"1">>, <<"2">>, <<"0">>, <<"x">>}),
            ps \in Giving(PAGE_SIZE_ATTRIBUTE, {<<"2">>, <<"0">>, <<"y">>}),
            ob \in Giving(ORDER_BY_ATTRIBUTE, {<<"i","d">>}),
            ot \in Giving(ORDER_TYPE_ATTRIBUTE, {<<"d","e","s","c">>}) }

PaginationRequests ==
    { [uri_params |-> PyNone, query_params |-> q, body |-> b] :
        q \in PaginationQueries \cup {PyNone},
        b \in {[malformed |-> FALSE, raw |-> <<>>, json |-> PyNone]} }

\* PaginationController(request)
PaginationParameters(request) ==
    /\ \E r \in {PaginationControllerInit(request)} :
          extracted' = [NoExtraction EXCEPT !.op = "pagination", !.request = request,
                                            !.raised = r.raised,
                                            !.validated = r.validated,
                                            !.pagination = r.pagination]
    /\ UNCHANGED <<ctxVars, optVars, trVars, outerVars>>

ControllersNext ==
    \/ \E request \in PaginationRequests : PaginationParameters(request)
    \/ \E request \in Requests, pythonic \in BOOLEAN : PathParameters(request, pythonic)
    \/ \E request \in Requests, pythonic \in BOOLEAN : QueryParameters(request, pythonic)
    \/ \E request \in Requests : BodyParameters(request)
    \/ \E request \in Requests : CreateBeanFromRequest(request)

SpecControllers == ControllersInit /\ [][ControllersNext]_vars

(***************************************************************************)
(* Properties of parameter extraction and of create_bean                   *)
(***************************************************************************)
\* the mapping from each name, normalized when pythonic, to its raw string
RECURSIVE NamedValues(_, _, _)
NamedValues(items, pythonic, built) ==
    IF Len(items) = 0 THEN built
    ELSE NamedValues(Tail(items), pythonic,
                     ItemsSet(built,
                              IF pythonic THEN camel_case_to_snake_case(Head(items).name)
                              ELSE Head(items).name,
                              Head(items).value))

ItemsOf(params) == IF params = PyNone THEN <<>> ELSE params.items

\* C12: body extraction never fails on a body that is not parseable: the raw
\* payload is returned wrapped in a single-element list, and a body that
\* parses as a mapping is returned as that mapping.
C12_UnparseableBodyWrappedInList ==
    extracted.op = "body" =>
        /\ extracted.request.body.malformed =>
              /\ extracted.raised = None
              /\ extracted.parameters = PyList(<<PyStr(extracted.request.body.raw)>>)
        /\ (~extracted.request.body.malformed /\ extracted.request.body.json.t = "dict") =>
              /\ extracted.raised = None
              /\ extracted.parameters.items = extracted.request.body.json.items

\* C13: path and query extraction returns the mapping from parameter name to
\* the raw string value, names normalized to snake case unless pythonic is
\* False, values never converted.
C13_NamesNormalizedValuesRaw ==
    /\ extracted.op = "path" =>
          /\ extracted.raised = None
          /\ extracted.parameters.items =
                NamedValues(ItemsOf(extracted.request.uri_params),
                            extracted.pythonic, <<>>)
    /\ extracted.op = "query" =>
          /\ extracted.raised = None
          /\ extracted.parameters.items =
                NamedValues(ItemsOf(extracted.request.query_params),
                            extracted.pythonic, <<>>)

\* C14: create_bean builds the simple parameters from path, then query, then
\* a mapping body, the latest source winning on a shared normalized name; a
\* list-form body is not merged and is passed as the complex parameters.
C14_LaterSourcesWin ==
    extracted.op = "create_bean" =>
        LET request == extracted.request
            path_and_query ==
                NamedValues(ItemsOf(request.query_params), TRUE,
                            NamedValues(ItemsOf(request.uri_params), TRUE, <<>>))
            is_mapping == ~request.body.malformed /\ request.body.json.t = "dict"
        IN  /\ extracted.inspected
            /\ extracted.simple_parameters =
                  IF is_mapping
                  THEN PyDict(ItemsUpdate(path_and_query, request.body.json.items))
                  ELSE PyDict(path_and_query)
            /\ is_mapping => extracted.complex_parameters = PyList(<<>>)
            /\ request.body.json.t = "list" =>
                  extracted.complex_parameters = request.body.json

\* C15: create_bean returns an instance of the first class, over the
\* namespaces dto then domain, that accepts the parameters, and fails with
\* BeanNotFoundException only, and only when no class of any namespace
\* accepts: every call either returns a bean found in one of the namespaces
\* or raises BeanNotFoundException.
C15_FirstAcceptingClassOfAnyNamespace ==
    extracted.op = "create_bean" =>
        \/ /\ extracted.raised = None
           /\ extracted.inspected
           /\ \E k \in 1..Len(ROOT_PACKAGES) : extracted.package = ROOT_PACKAGES[k]
        \/ extracted.raised = "BeanNotFoundException"

(***************************************************************************)
(* The MySQL repository (chalicelib/repositories/mysql_repository.py)      *)
(***************************************************************************)
\* database_client.client(): a new session
OpenSession == [NoSession EXCEPT !.opened = TRUE]

\* BaseRepository.close
Close(session) == [session EXCEPT !.closed = TRUE]

\* BaseRepository.rollback / session.rollback()
Rollback(session) == [session EXCEPT !.rolled_back = TRUE]

\* session.commit()
Commit(session) == [session EXCEPT !.committed = TRUE]

\* the tables a domain model class is mapped to
EntityTables == {"display"}

TableNames == EntityTables \cup {"unknown"}

\* BaseRepository.get_entity: the error raised for a table no class maps
get_entity(table_name) ==
    IF table_name \in EntityTables THEN None ELSE "InputParameterException"

\* what a repository call leaves behind
Outcome(raised, session, value, data) ==
    [raised |-> raised, session |-> session, value |-> value, data |-> data]

\* ClientPool.get_client on a pool with no client for the pattern
NoClient == Outcome("NodeNotFoundException", NoSession, None, <<>>)

\* BaseRepository.__commit_operation: fails when make_operations or the
\* commit raises a SQLAlchemyError
CommitOperation(session, fails, entities) ==
    IF fails
    THEN Outcome("DatabaseException", Close(Rollback(session)), None, <<>>)
    ELSE Outcome(None, Close(Commit(session)), "data", entities)

\* BaseRepository.query_operations
QueryOperations(session, options, rows) ==
    LET Checked(r) ==
            IF r.raised # None THEN Outcome(r.raised, session, None, <<>>)
            ELSE IF r.data = <<>> THEN Outcome("BadRequestError", session, None, <<>>)
            ELSE Outcome(None, Close(session), "data", r.data)
    IN  CHOOSE out \in {Checked(r) : r \in {TranslateResult(options, rows)}} : TRUE

\* the rows the filter of __get_default_request_options keeps: deleted_at
\* equal to DELETE_VALID_VALUE, that is deleted_at IS NULL
DefaultRequestRows(rows, deleted) ==
    LET Live(r) == r.id \notin deleted IN Keep(rows, Live)

\* BaseRepository.find_entities
FindEntities(table_name, clients, relationships, rows, deleted) ==
    IF ~clients THEN NoClient
    ELSE IF get_entity(table_name) # None
    THEN Outcome(get_entity(table_name), OpenSession, None, <<>>)
    ELSE LET Handled(q) ==
                 IF q.raised = "BadRequestError"
                 THEN Outcome(None, Close(q.session), "empty_list", <<>>)
                 ELSE IF q.raised # None THEN q
                 ELSE IF ~relationships
                 THEN Outcome(None, Close(q.session), "data", q.data)
                 ELSE Outcome(None, q.session, "data_and_session", q.data)
         IN  CHOOSE out \in
                 {Handled(q) : q \in {QueryOperations(OpenSession, NoRequestOptions,
                                                      DefaultRequestRows(rows, deleted))}} :
                 TRUE

\* query.get(entity_id): the row with that primary key, if any
QueryGet(rows, entity_id) ==
    LET HasId(r) == r.id = entity_id IN Keep(rows, HasId)

FindByIdOfAnyRow(entity_id, table_name, clients, relationships, rows, deleted) ==
    IF ~clients THEN NoClient
    ELSE IF get_entity(table_name) # None
    THEN Outcome(get_entity(table_name), OpenSession, None, <<>>)
    ELSE LET data == QueryGet(rows, entity_id)
         IN  IF data = <<>>
             THEN Outcome(None, Close(OpenSession), "none", <<>>)
             ELSE IF ~relationships
             THEN Outcome(None, Close(OpenSession), "data", data)
             ELSE Outcome(None, OpenSession, "data_and_session", data)

\* BaseRepository.find_by_id
FindById(entity_id, table_name, clients, relationships, rows, deleted) ==
    IF ~clients THEN NoClient
    ELSE IF get_entity(table_name) # None
    THEN Outcome(get_entity(table_name), OpenSession, None, <<>>)
    ELSE LET data == QueryGet(rows, entity_id)
         IN  IF data = <<>> \/ entity_id \in deleted
             THEN Outcome(None, Close(OpenSession), "none", <<>>)
             ELSE IF ~relationships
             THEN Outcome(None, Close(OpenSession), "data", data)
             ELSE Outcome(None, OpenSession, "data_and_session", data)

\* BaseRepository.find_pagination_entities
FindPaginationEntities(is_options, options, table_name, clients, rows) ==
    IF ~clients THEN NoClient
    ELSE IF ~is_options
    THEN Outcome("InputParameterException", OpenSession, None, <<>>)
    ELSE IF ~options.has_pagination
    THEN Outcome("InputParameterException", OpenSession, None, <<>>)
    ELSE IF get_entity(table_name) # None
    THEN Outcome(get_entity(table_name), OpenSession, None, <<>>)
    ELSE QueryOperations(OpenSession, options, rows)

\* BaseRepository.create_entity, given a list of that many entities
CreateEntity(entities, clients, fails, rows) ==
    IF entities > 1 THEN Outcome("InputParameterException", NoSession, None, <<>>)
    ELSE IF ~clients THEN NoClient
    ELSE LET Single(r) == IF r.raised # None THEN r ELSE [r EXCEPT !.value = "entity"]
         IN  Single(CommitOperation(OpenSession, fails, <<Row(Len(rows) + 1)>>))

\* BaseRepository.logical_delete_entity_by_id
LogicalDeleteEntityById(entity_id, table_name, clients, fails, rows, deleted) ==
    IF ~clients THEN NoClient
    ELSE IF get_entity(table_name) # None
    THEN Outcome(get_entity(table_name), OpenSession, None, <<>>)
    ELSE LET data == QueryGet(rows, entity_id)
         IN  IF data = <<>>
             THEN Outcome("BadRequestException", OpenSession, None, <<>>)
             ELSE IF entity_id \in deleted
             THEN Outcome("BadRequestException", OpenSession, None, <<>>)
             ELSE LET r == CommitOperation(OpenSession, fails, data)
                  IN  IF r.raised # None THEN r ELSE [r EXCEPT !.value = "none"]

\* the request options passed to find_pagination_entities: with and without
\* a filter, with every pagination and with none
MaxId == 2

RepositoryFilters ==
    {<<>>, << <<<<"i","d">>, FilterRequestInit(PyInt(0), RequestOperations("EQUALS")).obj>> >>}

PageSize == 2

RepositoryPaginations ==
    {PaginationInit(PyInt(page), PyInt(PageSize), PyNone, PyNone).obj : page \in 0..MaxPage}

RepositoryOptions ==
    {[NoRequestOptions EXCEPT !.request_filters = f] : f \in RepositoryFilters} \cup
    {[NoRequestOptions EXCEPT !.request_filters = f, !.has_pagination = TRUE,
                              !.pagination = pg] :
        f \in RepositoryFilters, pg \in RepositoryPaginations}

\* an entity table with no row logically deleted
RepositoryInit ==
    /\ ContextIdle
    /\ OptionsIdle
    /\ ControllersIdle
    /\ table \in Tables
    /\ request_options = NoRequestOptions
    /\ translated = NoTranslation
    /\ response = NoResponse
    /\ RepositoryIdle
    /\ HttpIdle
    /\ LoggersIdle
    /\ LateIdle

Called(op, r) ==
    [NoRepositoryCall EXCEPT !.op = op, !.raised = r.raised, !.session = r.session,
                             !.value = r.value, !.data = r.data]

RepositoryFrame ==
    UNCHANGED <<ctxVars, optVars, ctlVars, request_options, translated, response,
                httpVars, logVars, lateVars>>

\* repository.find_entities(table_name, relationships=relationships)
find_entities(table_name, clients, relationships) ==
    /\ \E r \in {FindEntities(table_name, clients, relationships, table, deleted_at)} :
          repository_call' =
             [Called("find_entities", r)
                EXCEPT !.table_name = table_name, !.clients = clients,
                       !.relationships = relationships]
    /\ UNCHANGED <<table, deleted_at>>
    /\ RepositoryFrame

\* repository.find_by_id(entity_id, table_name, relationships=relationships)
find_by_id(entity_id, table_name, clients, relationships) ==
    /\ \E r \in {FindById(entity_id, table_name, clients, relationships, table, deleted_at)} :
          repository_call' =
             [Called("find_by_id", r)
                EXCEPT !.table_name = table_name, !.clients = clients,
                       !.entity_id = entity_id, !.relationships = relationships]
    /\ UNCHANGED <<table, deleted_at>>
    /\ RepositoryFrame

\* repository.find_pagination_entities(request_options, table_name=table_name)
find_pagination_entities(is_options, options, table_name, clients) ==
    /\ \E r \in {FindPaginationEntities(is_options, options, table_name, clients, table)} :
          repository_call' =
             [Called("find_pagination_entities", r)
                EXCEPT !.table_name = table_name, !.clients = clients,
                       !.is_options = is_options, !.options = options]
    /\ UNCHANGED <<table, deleted_at>>
    /\ RepositoryFrame

\* repository.create_entity(entity)
create_entity(entities, clients, fails) ==
    /\ Len(table) < MaxRows
    /\ \E r \in {CreateEntity(entities, clients, fails, table)} :
           /\ repository_call' =
                 [Called("create_entity", r)
                    EXCEPT !.entities = entities, !.clients = clients, !.fails = fails]
           /\ table' = IF r.raised = None THEN table \o r.data ELSE table
    /\ UNCHANGED deleted_at
    /\ RepositoryFrame

\* repository.logical_delete_entity_by_id(entity_id, table_name)
logical_delete_entity_by_id(entity_id, table_name, clients, fails) ==
    /\ \E r \in {LogicalDeleteEntityById(entity_id, table_name, clients, fails,
                                          table, deleted_at)} :
           /\ repository_call' =
                 [Called("logical_delete_entity_by_id", r)
                    EXCEPT !.table_name = table_name, !.clients = clients,
                           !.entity_id = entity_id, !.fails = fails]
           /\ deleted_at' = IF r.raised = None THEN deleted_at \cup {entity_id}
                            ELSE deleted_at
    /\ UNCHANGED table
    /\ RepositoryFrame

RepositoryNext ==
    \/ \E t \in TableNames, c \in BOOLEAN, rel \in BOOLEAN : find_entities(t, c, rel)
    \/ \E i \in 1..MaxId, t \in TableNames, c \in BOOLEAN, rel \in BOOLEAN :
          find_by_id(i, t, c, rel)
    \/ \E t \in TableNames, c \in BOOLEAN :
          \/ find_pagination_entities(FALSE, NoRequestOptions, t, c)
          \/ \E o \in RepositoryOptions : find_pagination_entities(TRUE, o, t, c)
    \/ \E n \in 1..2, c \in BOOLEAN, f \in BOOLEAN : create_entity(n, c, f)
    \/ \E i \in 1..MaxId, t \in TableNames, c \in BOOLEAN, f \in BOOLEAN :
          logical_delete_entity_by_id(i, t, c, f)

SpecRepository == RepositoryInit /\ [][RepositoryNext]_vars

(***************************************************************************)
(* Properties of the repository's sessions                                 *)
(***************************************************************************)
\* C16: whenever a BaseRepository operation ends with a DatabaseException,
\* the page-out-of-range failure of find_pagination_entities included, the
\* session the operation opened has been rolled back and closed
C16_DatabaseExceptionRolledBackAndClosed ==
    (repository_call.raised = "DatabaseException" /\ repository_call.session.opened)
        => /\ repository_call.session.rolled_back
           /\ repository_call.session.closed

\* the calls the contract lets return their session: find_entities and
\* find_by_id with relationships=True and a non-empty result
ReturnsItsSession ==
    /\ repository_call.op \in {"find_entities", "find_by_id"}
    /\ repository_call.relationships
    /\ repository_call.raised = None
    /\ repository_call.data # <<>>

\* C17: every BaseRepository call opens one session and has closed it when
\* it returns or raises, except that find_entities and find_by_id called
\* with relationships=True and a non-empty result return the session with
\* the data, and that session has not been closed
C17_SessionClosedUnlessReturned ==
    (repository_call.op # None /\ repository_call.session.opened)
        => IF ReturnsItsSession
           THEN /\ repository_call.value = "data_and_session"
                /\ ~repository_call.session.closed
           ELSE repository_call.session.closed

(***************************************************************************)
(* The HTTP controller (chalicelib/controllers/http_controller.py)         *)
(***************************************************************************)
MaxRequests == 2

\* HTTPStatus.INTERNAL_SERVER_ERROR
INTERNAL_SERVER_ERROR == 500

\* the service requests handed to the controller
ServiceRequests == {"request_1", "request_2"}

\* what main_service.dispatch(request, method) can do: return a status and
\* a body, a plain one or a ServiceResponse, or raise an HTTPRequestException
\* (with its status and response body), a DatabaseException or any other
\* exception, each with its message
Dispatches ==
    {[kind |-> "return", status_code |-> 200, body |-> "ok", message |-> ""],
     [kind |-> "return_service_response", status_code |-> 200, body |-> "",
      message |-> ""],
     [kind |-> "HTTPRequestException", status_code |-> 404, body |-> "not found",
      message |-> "not found"],
     [kind |-> "Exception", status_code |-> 0, body |-> "", message |-> "key error"]}
    \cup
    {[kind |-> "DatabaseException", status_code |-> 0, body |-> "", message |-> m] :
        m \in {"SQLAlchemyError found: connection refused",
               "page requested does not exist"}}

\* chalice's Response(status_code=..., body=...)
Response(status_code, body) == [status_code |-> status_code, body |-> body]

NoHttpResponse == Response(0, "")

\* body.json() of a ServiceResponse, a model without fields
ServiceResponseJson == "{}"

\* a controller that answers a DatabaseException with the exception's message
ProcessRequestEchoingMessage(dispatch) ==
    CASE dispatch.kind = "HTTPRequestException" ->
            [raised |-> None, message |-> "",
             response |-> Response(dispatch.status_code, dispatch.body)]
      [] dispatch.kind = "DatabaseException" ->
            [raised |-> None, message |-> "",
             response |-> Response(INTERNAL_SERVER_ERROR, dispatch.message)]
      [] dispatch.kind = "Exception" ->
            [raised |-> "InternalServerErrorException", message |-> dispatch.message,
             response |-> NoHttpResponse]
      [] dispatch.kind = "return_service_response" ->
            [raised |-> None, message |-> "",
             response |-> Response(dispatch.status_code, ServiceResponseJson)]
      [] dispatch.kind = "return" ->
            [raised |-> None, message |-> "",
             response |-> Response(dispatch.status_code, dispatch.body)]

\* HTTPController.process_request after the request is recorded: the
\* error raised to the caller and the response returned
ProcessRequest(dispatch) ==
    CASE dispatch.kind = "HTTPRequestException" ->
            [raised |-> None, message |-> "",
             response |-> Response(dispatch.status_code, dispatch.body)]
      [] dispatch.kind = "DatabaseException" ->
            [raised |-> None, message |-> "",
             response |-> Response(INTERNAL_SERVER_ERROR,
                     "An exception occurred while interacting with the database")]
      [] dispatch.kind = "Exception" ->
            [raised |-> "InternalServerErrorException", message |-> dispatch.message,
             response |-> NoHttpResponse]
      [] dispatch.kind = "return_service_response" ->
            [raised |-> None, message |-> "",
             response |-> Response(dispatch.status_code, ServiceResponseJson)]
      [] dispatch.kind = "return" ->
            [raised |-> None, message |-> "",
             response |-> Response(dispatch.status_code, dispatch.body)]

HttpInit ==
    /\ ContextIdle
    /\ OptionsIdle
    /\ TranslatorIdle
    /\ ControllersIdle
    /\ RepositoryIdle
    /\ HttpIdle
    /\ LoggersIdle
    /\ LateIdle

\* http_controller.process_request(request, method), with what the service
\* dispatch does for it
process_request(request, dispatch) ==
    /\ Len(http_calls) < MaxRequests
    /\ http_requests' = Append(http_requests, request)
    /\ \E r \in {ProcessRequest(dispatch)} :
          http_calls' = Append(http_calls,
                               [request |-> request, dispatch |-> dispatch,
                                raised |-> r.raised, message |-> r.message,
                                response |-> r.response])
    /\ UNCHANGED <<ctxVars, optVars, trVars, ctlVars, repoVars, logVars, lateVars>>

HttpNext ==
    \E request \in ServiceRequests, dispatch \in Dispatches :
        process_request(request, dispatch)

SpecHttp == HttpInit /\ [][HttpNext]_vars

(***************************************************************************)
(* Properties of the HTTP controller                                       *)
(***************************************************************************)
DatabaseFailures ==
    {k \in 1..Len(http_calls) : http_calls[k].dispatch.kind = "DatabaseException"}

\* C18: when the service dispatch raises a DatabaseException, process_request
\* returns a response with status 500 and one fixed body: two
\* DatabaseExceptions with different messages get identical responses, and
\* the request is recorded in http_requests in both cases
C18_DatabaseExceptionFixedResponse ==
    /\ \A k \in DatabaseFailures :
          /\ http_calls[k].raised = None
          /\ http_calls[k].response.status_code = 500
          /\ k \in 1..Len(http_requests)
          /\ http_requests[k] = http_calls[k].request
    /\ \A j \in DatabaseFailures, k \in DatabaseFailures :
          http_calls[j].response = http_calls[k].response

\* two DatabaseExceptions with different messages, for different requests
C18_Witness ==
    \E j \in DatabaseFailures, k \in DatabaseFailures :
        /\ http_calls[j].dispatch.message # http_calls[k].dispatch.message
        /\ http_calls[j].request # http_calls[k].request
        /\ http_calls[j].response = http_calls[k].response

(***************************************************************************)
(* The system logger (chalicelib/logs/log_system.py)                       *)
(***************************************************************************)
\* SystemLogger.AVAILABLE_LOGGER_TYPES: DEBUG, INFO, WARNING, CRITICAL,
\* FATAL, WARN, ERROR
AVAILABLE_LOGGER_TYPES == <<10, 20, WARNING, 50, 50, WARNING, 40>>

\* logging_level in self.AVAILABLE_LOGGER_TYPES
InAvailableLoggerTypes(logging_level) ==
    /\ logging_level.t = "int"
    /\ \E k \in 1..Len(AVAILABLE_LOGGER_TYPES) : AVAILABLE_LOGGER_TYPES[k] = logging_level.i

\* the keys of self.loggers
LoggerNames(registered) == {logger.name : logger \in registered}

\* SystemLogger.__setup_logger: the logger of that name at that level; with
\* a filename, a FileHandler on os.path.join(os.path.sep, directory,
\* filename), which raises when the file cannot be opened
SetupLogger(name, filename, openable, level) ==
    IF filename # None /\ ~openable
    THEN [raised |-> "FileNotFoundError", logger |-> [name |-> name, level |-> level.i]]
    ELSE [raised |-> None, logger |-> [name |-> name, level |-> level.i]]

\* self.loggers[name] = logger
LoggersSet(registered, logger) ==
    {l \in registered : l.name # logger.name} \cup {logger}

\* SystemLogger.add_logger
AddLogger(registered, name, logging_level, filename, openable) ==
    IF name.t # "str" \/ ~InAvailableLoggerTypes(logging_level)
    THEN [raised |-> None, loggers |-> registered]
    ELSE LET Stored(r) ==
                 IF r.raised # None THEN [raised |-> r.raised, loggers |-> registered]
                 ELSE [raised |-> None, loggers |-> LoggersSet(registered, r.logger)]
         IN  Stored(SetupLogger(name, filename, openable, logging_level))

\* SystemLogger.delete_logger
DeleteLogger(registered, name) ==
    IF name \notin LoggerNames(registered)
    THEN [raised |-> None, loggers |-> registered]
    ELSE [raised |-> None, loggers |-> {l \in registered : l.name # name}]

\* the names, levels and log files the calls are made with; a log file is
\* given or not, and one that is given can be opened or not
NamesTried ==
    {DEFAULT_LOGGER_NAME, PyStr(<<"t","e","s","t">>), PyInt(1)}

LevelsTried == {PyInt(WARNING), PyInt(10), PyInt(1), PyNone}

FilesTried ==
    {[filename |-> None, openable |-> TRUE],
     [filename |-> "test.log", openable |-> TRUE],
     [filename |-> "test.log", openable |-> FALSE]}

LoggersInit ==
    /\ ContextIdle
    /\ OptionsIdle
    /\ TranslatorIdle
    /\ ControllersIdle
    /\ RepositoryIdle
    /\ HttpIdle
    /\ LoggersIdle
    /\ LateIdle

LoggersFrame ==
    UNCHANGED <<ctxVars, optVars, trVars, ctlVars, repoVars, httpVars, lateVars>>

\* system_logger.add_logger(name, logging_level, None, filename)
add_logger(name, logging_level, file) ==
    /\ \E r \in {AddLogger(loggers, name, logging_level, file.filename, file.openable)} :
          /\ loggers' = r.loggers
          /\ logger_call' = [op |-> "add_logger", name |-> name,
                             logging_level |-> logging_level,
                             filename |-> file.filename, openable |-> file.openable,
                             raised |-> r.raised]
    /\ LoggersFrame

\* system_logger.delete_logger(name)
delete_logger(name) ==
    /\ \E r \in {DeleteLogger(loggers, name)} :
          /\ loggers' = r.loggers
          /\ logger_call' = [NoLoggerCall EXCEPT !.op = "delete_logger", !.name = name,
                                                 !.raised = r.raised]
    /\ LoggersFrame

LoggersNext ==
    \/ \E name \in NamesTried, level \in LevelsTried, file \in FilesTried :
          add_logger(name, level, file)
    \/ \E name \in NamesTried : delete_logger(name)

SpecLoggers == LoggersInit /\ [][LoggersNext]_vars

(***************************************************************************)
(* Properties of the system logger                                         *)
(***************************************************************************)
\* the levels of the logging module: DEBUG, INFO, WARNING, ERROR, CRITICAL
RecognisedLevel(level) == level.t = "int" /\ level.i \in {10, 20, 30, 40, 50}

\* the last call was an add with a string name and a recognised level
ValidAdd(call) ==
    /\ call.op = "add_logger"
    /\ call.name.t = "str"
    /\ RecognisedLevel(call.logging_level)

\* one call, as the claim describes it: a valid add for which Registers
\* holds adds its name, a delete removes its name, anything else leaves the
\* names alone; an invalid add and a delete of an absent name raise nothing
CallAsDescribed(call, before, after, Registers(_)) ==
    /\ after = IF ValidAdd(call) /\ Registers(call) THEN before \cup {call.name}
               ELSE IF call.op = "delete_logger" THEN before \ {call.name}
               ELSE before
    /\ (call.op = "add_logger" /\ ~ValidAdd(call))
          => (call.raised = None /\ after = before)
    /\ (call.op = "delete_logger" /\ call.name \notin before)
          => (call.raised = None /\ after = before)

Always(call) == TRUE

LogFileOpens(call) == call.filename = None \/ call.openable

\* C19: after any sequence of add_logger and delete_logger calls the
\* registered names are the initial set {default} plus every name added with
\* a string name and a recognised level, minus every name deleted since; an
\* add with a non-string name or an unrecognised level and a delete of an
\* absent name leave the set unchanged and raise nothing
C19_NamesFollowTheCalls ==
    /\ LoggerNames(loggers) = {DEFAULT_LOGGER_NAME}
    /\ [][CallAsDescribed(logger_call', LoggerNames(loggers), LoggerNames(loggers'),
                          Always)]_vars

\* C19, for the calls whose log file, if one is named, can be opened; an
\* add whose log file cannot be opened raises and leaves the names alone
C19_NamesFollowTheCallsWhenLogFileOpens ==
    /\ LoggerNames(loggers) = {DEFAULT_LOGGER_NAME}
    /\ [][/\ CallAsDescribed(logger_call', LoggerNames(loggers), LoggerNames(loggers'),
                             LogFileOpens)
          /\ (ValidAdd(logger_call') /\ ~LogFileOpens(logger_call'))
                => logger_call'.raised = "FileNotFoundError"]_vars

(***************************************************************************)
(* Properties of the filter operators                                      *)
(***************************************************************************)
\* the last translate_operation call had one filter, on the primary key, no
\* pagination and no return values
OneFilterAlone ==
    /\ translated.called
    /\ Len(request_options.request_filters) = 1
    /\ ~request_options.has_pagination
    /\ request_options.return_values = <<>>

TheFilter == request_options.request_filters[1][2]

\* the name the filter's operator was written with in its enumeration
OperatorName(operation) ==
    IF operation.t = "RequestOperations"
    THEN EnumName(RequestOperationsItems, operation)
    ELSE EnumName(MySQLRequestOperationsItems, operation)

\* the operand suits the operator: a list for CONTAINS, a list of two for
\* BETWEEN, a scalar for the others
OperandSuits(name, value) ==
    CASE name = "CONTAINS" -> value.t = "list"
      [] name = "BETWEEN"  -> value.t = "list" /\ Len(value.items) = 2
      [] OTHER             -> value.t \in {"int", "str"}

\* the rows the operator of that name selects by its own transformation
RowsSelectedBy(name, value, rows) ==
    LET Equal(r)    == r.id = ScalarInt(value)
        NotEqual(r) == r.id # ScalarInt(value)
        Less(r)     == r.id < ScalarInt(value)
        Greater(r)  == r.id > ScalarInt(value)
        Member(r)   == \E k \in 1..Len(value.items) : value.items[k].i = r.id
        Between(r)  == value.items[1].i <= r.id /\ r.id <= value.items[2].i
        Matches(r)  == Like(IntToStr(r.id), LikePattern(value))
    IN  CASE name = "EQUALS"     -> SelectSeq(rows, Equal)
          [] name = "NOT_EQUALS" -> SelectSeq(rows, NotEqual)
          [] name = "LESS"       -> SelectSeq(rows, Less)
          [] name = "GREATER"    -> SelectSeq(rows, Greater)
          [] name = "CONTAINS"   -> SelectSeq(rows, Member)
          [] name = "BETWEEN"    -> SelectSeq(rows, Between)
          [] name = "LIKE"       -> SelectSeq(rows, Matches)

\* C21: for each operator a FilterRequest can carry, translate_operation
\* narrows the query with that operator's own transformation (EQUALS by
\* equality, NOT_EQUALS by inequality, LESS by less-than, GREATER by
\* greater-than, CONTAINS by membership, BETWEEN by a two-sided range, LIKE
\* by pattern match); an EQUALS filter of the MySQL-extended operator set is
\* applied as equality and not as a pattern match
C21_EachOperatorItsOwnTransformation ==
    (/\ OneFilterAlone
     /\ OperandSuits(OperatorName(TheFilter.request_operation), TheFilter.request_value)) =>
        /\ translated.raised = None
        /\ translated.data = RowsSelectedBy(OperatorName(TheFilter.request_operation),
                                            TheFilter.request_value, table)

\* the same, for the operators of RequestOperations alone
C21_DomainOperatorsTheirOwnTransformation ==
    (/\ OneFilterAlone
     /\ TheFilter.request_operation.t = "RequestOperations"
     /\ OperandSuits(OperatorName(TheFilter.request_operation), TheFilter.request_value)) =>
        /\ translated.raised = None
        /\ translated.data = RowsSelectedBy(OperatorName(TheFilter.request_operation),
                                            TheFilter.request_value, table)

(***************************************************************************)
(* Properties of unpaged translations                                      *)
(***************************************************************************)
\* the last translate_operation call had filters the query builder accepts
\* and a Pagination with page and page_size both unset, or with page 0
PaginationWithoutPage ==
    /\ translated.called
    /\ FilteredTable.raised = None
    /\ request_options.has_pagination
    /\ \/ translated.before.page = PyNone /\ translated.before.page_size = PyNone
       \/ translated.before.page = PyInt(0)

\* the last translate_operation call had accepted filters and no Pagination
WithoutPagination ==
    /\ translated.called
    /\ FilteredTable.raised = None
    /\ ~request_options.has_pagination

Ids(rows) == {rows[k].id : k \in 1..Len(rows)}

\* the sequence holds every row matching the filters, each once
EveryMatchingRecord(rows) ==
    /\ Len(rows) = Len(FilteredTable.query.rows)
    /\ Ids(rows) = Ids(FilteredTable.query.rows)

\* C22: with a Pagination whose page and page_size are both unset, or whose
\* page is 0, translate_operation raises no error, returns every record
\* matching the filters in one page, sets pagination.page to 1 and stores
\* the returned records in pagination.results; without a Pagination it
\* returns every matching record
C22_UnpagedReturnsEveryMatch ==
    /\ PaginationWithoutPage =>
          /\ translated.raised = None
          /\ EveryMatchingRecord(translated.data)
          /\ request_options.pagination.page = PyInt(1)
          /\ EveryMatchingRecord(request_options.pagination.results)
          /\ \A k \in 1..Len(translated.data) :
                translated.data[k].id = request_options.pagination.results[k].id
    /\ WithoutPagination =>
          /\ translated.raised = None
          /\ EveryMatchingRecord(translated.data)

\* a page 0 request with a filter that keeps some rows and drops others
C22_Witness ==
    /\ PaginationWithoutPage
    /\ translated.before.page = PyInt(0)
    /\ translated.before.page_size = PyInt(1)
    /\ Len(table) = 5
    /\ Len(translated.data) = 2
    /\ request_options.pagination.page = PyInt(1)

(***************************************************************************)
(* Interleaved resolutions (chalicelib/core/context.py)                    *)
(***************************************************************************)
MaxResolutions == 2

\* the registry once every component class has been defined
RECURSIVE RegistryOf(_, _)
RegistryOf(reg, classes) ==
    IF Len(classes) = 0 THEN reg
    ELSE RegistryOf(RegisteringType(reg, Head(classes).name, Head(classes).attrs),
                    Tail(classes))

\* the classes and arguments the interleaved callers resolve
ResolvedClasses == {i \in 1..Len(Classes) : Classes[i].name \in {<<"P">>, <<"N">>, <<"X">>}}

ResolvedArgLists == { <<>>, << <<"x">> >> }

\* a dict that keeps the bean it already holds under the key
ActiveBeansSetDefault(beans, k, bean) ==
    [x \in DOMAIN beans \cup {k} |-> IF x \in DOMAIN beans THEN beans[x] ELSE bean]

\* self.active_beans[k] = bean
ActiveBeansSet(beans, k, bean) ==
    [x \in DOMAIN beans \cup {k} |-> IF x = k THEN bean ELSE beans[x]]

\* the stores done so far
Stores == {p \in 1..Len(resolving) : resolving[p].order > 0}

ConcurrentInit ==
    /\ registry = RegistryOf(<<>>, Classes)
    /\ active_beans = <<>>
    /\ created = 0
    /\ ret = NoCall
    /\ returned = <<>>
    /\ OptionsIdle
    /\ TranslatorIdle
    /\ ControllersIdle
    /\ RepositoryIdle
    /\ HttpIdle
    /\ LoggersIdle
    /\ LateIdle

ConcurrentFrame ==
    UNCHANGED <<registry, ret, returned, optVars, trVars, ctlVars, repoVars, httpVars,
                logVars, poolVars, beanVars, managerVars>>

\* request_instance is entered: injection_name = values.pop(0)
Enter(i, values) ==
    /\ Len(resolving) < MaxResolutions
    /\ resolving' = Append(resolving,
                           [pc |-> "lookup", cls |-> i, values |-> values,
                            key_value |-> EmptyStr, stored_key |-> EmptyStr,
                            bean |-> NoBean, exc |-> None, found |-> FALSE,
                            saw_stores |-> 0, order |-> 0])
    /\ UNCHANGED <<active_beans, created>>
    /\ ConcurrentFrame

\* the registry loop and bean = self.active_beans.get(key_value, None)
LookUp(p) ==
    /\ resolving[p].pc = "lookup"
    /\ LET name == Classes[resolving[p].cls].name
           e    == FirstEntry(registry, name)
       IN  IF e = 0
           THEN resolving' = [resolving EXCEPT ![p].pc = "raised",
                                               ![p].exc = "DependencyInjectionException"]
           ELSE \E key_value \in {KeyValue(name, registry[e][2])} :
                \E bean \in {BeanGet(active_beans, key_value)} :
                   resolving' = [resolving EXCEPT
                                    ![p].key_value = key_value,
                                    ![p].saw_stores = Cardinality(Stores),
                                    ![p].bean = bean,
                                    ![p].found = (bean # NoBean),
                                    ![p].pc = IF bean # NoBean THEN "returned"
                                              ELSE "construct"]
    /\ UNCHANGED <<active_beans, created>>
    /\ ConcurrentFrame

\* __create_bean: bean = reference(*values)
ConstructBean(p) ==
    /\ resolving[p].pc = "construct"
    /\ \E c \in {Construct(Classes[resolving[p].cls], resolving[p].values)} :
          IF c.raised # None
          THEN /\ resolving' = [resolving EXCEPT
                                   ![p].pc = "raised",
                                   ![p].exc = IF c.raised = "BadRequestException"
                                              THEN "BadRequestException"
                                              ELSE "DependencyInjectionException"]
               /\ UNCHANGED created
          ELSE /\ resolving' = [resolving EXCEPT
                                   ![p].pc = "store",
                                   ![p].bean = [id |-> created + 1,
                                                cls |-> Classes[resolving[p].cls].name,
                                                args |-> resolving[p].values]]
               /\ created' = created + 1
    /\ UNCHANGED active_beans
    /\ ConcurrentFrame

\* __create_bean: self.active_beans[injection_name + "&" + "&".join(key)] = bean
StoreBean(p) ==
    /\ resolving[p].pc = "store"
    /\ \E k \in {StoreKey(Classes[resolving[p].cls].name, resolving[p].key_value)} :
          /\ active_beans' = ActiveBeansSet(active_beans, k, resolving[p].bean)
          /\ resolving' = [resolving EXCEPT ![p].pc = "returned",
                                            ![p].stored_key = k,
                                            ![p].order = Cardinality(Stores) + 1]
    /\ UNCHANGED created
    /\ ConcurrentFrame

ConcurrentNext ==
    \/ \E i \in ResolvedClasses, values \in ResolvedArgLists : Enter(i, values)
    \/ \E p \in 1..Len(resolving) : LookUp(p)
    \/ \E p \in 1..Len(resolving) : ConstructBean(p)
    \/ \E p \in 1..Len(resolving) : StoreBean(p)

SpecConcurrent == ConcurrentInit /\ [][ConcurrentNext]_vars

(***************************************************************************)
(* Properties of interleaved resolutions                                   *)
(***************************************************************************)
\* both resolutions are of the same component with the same arguments, and
\* both looked the table up before any store
BothLookedUpFirst(p, q) ==
    /\ p # q
    /\ resolving[p].cls = resolving[q].cls
    /\ resolving[p].values = resolving[q].values
    /\ resolving[p].pc \notin {"lookup", "raised"}
    /\ resolving[q].pc \notin {"lookup", "raised"}
    /\ resolving[p].saw_stores = 0
    /\ resolving[q].saw_stores = 0

\* C23: when two resolutions of the same registered component with the same
\* arguments both look the active-bean table up before either stores, both
\* construct an instance; afterwards the table holds exactly one entry for
\* that key, the instance stored last, and the instance stored first is no
\* longer reachable from the table
C23_LastStoreWins ==
    \A p \in 1..Len(resolving), q \in 1..Len(resolving) :
        BothLookedUpFirst(p, q) =>
            /\ ~resolving[p].found /\ ~resolving[q].found
            /\ (p \in Stores /\ q \in Stores) =>
                  /\ resolving[p].bean.id # resolving[q].bean.id
                  /\ resolving[p].stored_key = resolving[q].stored_key
                  /\ resolving[p].order < resolving[q].order =>
                        /\ resolving[p].bean \notin StoredBeans
                        /\ (\A o \in Stores : resolving[o].stored_key = resolving[q].stored_key
                                                => resolving[o].order <= resolving[q].order)
                              => active_beans[resolving[q].stored_key] = resolving[q].bean

\* two resolutions of P("x") that both looked up before either stored, and
\* both have stored
C23_Witness ==
    /\ Len(resolving) >= 2
    /\ BothLookedUpFirst(1, 2)
    /\ resolving[1].values = << <<"x">> >>
    /\ resolving[1].order = 2
    /\ resolving[2].order = 1
    /\ active_beans[resolving[1].stored_key] = resolving[1].bean

(***************************************************************************)
(* ClientPool (core/connections.py)                                        *)
(*                                                                         *)
(* A configuration is an ordered dict kept as a sequence of entries: the   *)
(* key (section), whether the value is a dict, the value's entries         *)
(* (properties), its "operations" entry if any, and whether                *)
(* create_engine(...).connect() succeeds for it.                           *)
(***************************************************************************)
\* s.startswith(prefix)
StartsWith(s, prefix) ==
    /\ Len(s) >= Len(prefix)
    /\ SubSeq(s, 1, Len(prefix)) = prefix

\* sub in s, for two str
InStr(sub, s) ==
    \E k \in 0..(Len(s) - Len(sub)) : SubSeq(s, k + 1, k + Len(sub)) = sub

NODE_SECTION == <<"N","O","D","E","-">>

SELECT == PyStr(<<"S","E","L","E","C","T">>)

INSERT == PyStr(<<"I","N","S","E","R","T">>)

UPDATE == PyStr(<<"U","P","D","A","T","E">>)

DELETE == PyStr(<<"D","E","L","E","T","E">>)

DEFAULT_OPERATIONS == PyList(<<SELECT, INSERT, UPDATE, DELETE>>)

RDS == <<"r","d","s">>

\* DatabaseClient.__init__: a str of operations becomes a list of one
DatabaseClient(node_id, type, operations) ==
    [node_id |-> node_id,
     type |-> type,
     operations |-> IF operations.t = "str" THEN <<operations>> ELSE operations.items]

\* the condition of get_node_client's loop for one pooled client
Matches(pattern, database_client) ==
    LET ops == database_client.operations
        InOps(v) == \E k \in 1..Len(ops) : ops[k] = v
        items == pattern.items
        SetOf(seq) == {seq[k] : k \in 1..Len(seq)}
    IN  \/ /\ pattern.t = "str"
           /\ \/ pattern.s = database_client.type
              \/ InStr(pattern.s, database_client.node_id)
              \/ InOps(pattern)
        \/ /\ pattern.t = "list"
           /\ \/ Len(ops) = Len(items) /\ SetOf(ops) = SetOf(items)
              \/ Len(items) = 1 /\ InOps(items[1])
              \/ Cardinality({k \in 1..Len(items) : InOps(items[k])}) = Len(items)
              \/ \E k \in 1..Len(items) :
                    items[k] \in {PyStr(database_client.type),
                                  PyStr(database_client.node_id)}

\* ClientPool.get_node_client: a new list of the matching clients, or
\* NodeNotFoundException when it is empty
GetNodeClient(clients, pattern) ==
    LET databases == SelectSeq(clients, LAMBDA c : Matches(pattern, c))
    IN  IF databases # <<>>
        THEN [raised |-> None, value |-> databases, clients |-> clients]
        ELSE [raised |-> "NodeNotFoundException", value |-> <<>>, clients |-> clients]

\* ClientPool.main_node_logic: the pool after the entries of config_properties
\* were inspected in order
RECURSIVE MainNodeLogic(_, _)
MainNodeLogic(clients, config_properties) ==
    IF config_properties = <<>> THEN clients
    ELSE
        LET entry == Head(config_properties)
            section == entry.section
            is_node == entry.is_dict /\ StartsWith(section, NODE_SECTION)
            pooled == \E k \in 1..Len(clients) : clients[k].node_id = section
        IN  IF is_node /\ pooled
            THEN \* continue: neither created again nor its subsections inspected
                 MainNodeLogic(clients, Tail(config_properties))
            ELSE
                LET added ==
                        IF is_node /\ entry.connects
                        THEN Append(clients,
                                    DatabaseClient(section, RDS,
                                        IF entry.operations = PyNone
                                        THEN DEFAULT_OPERATIONS
                                        ELSE entry.operations))
                        ELSE clients   \* not a node, or the exception is logged
                    inspected ==
                        IF entry.is_dict /\ entry.properties # <<>>
                        THEN MainNodeLogic(added, entry.properties)
                        ELSE added
                IN  MainNodeLogic(inspected, Tail(config_properties))

\* whether the class has the client_pool attribute: its classproperty is
\* inside a string literal, and nothing assigns it
HasClientPool == FALSE

Section(section, is_dict, connects, operations, properties) ==
    [section |-> section, is_dict |-> is_dict, connects |-> connects,
     operations |-> operations, properties |-> properties]

\* a str value, under a key that starts like a node section
StrEntry == Section(NODE_SECTION \o <<"S">>, FALSE, FALSE, PyNone, <<>>)

NodeA == NODE_SECTION \o <<"A">>

NodeAB == NODE_SECTION \o <<"A","B">>

OperationsTried == {PyNone, SELECT, PyList(<<SELECT, INSERT>>)}

Nodes(section, inner) ==
    { Section(section, TRUE, c, o, <<StrEntry>> \o inner) :
        c \in BOOLEAN, o \in OperationsTried }

\* main_resources.config["MYSQL"]
MysqlConfig == <<Section(NodeA, TRUE, TRUE, PyNone, <<StrEntry>>),
                 Section(NodeAB, TRUE, TRUE, SELECT, <<StrEntry>>)>>

\* ClientPool.get_client: cls.client_pool is read first; a lookup that finds
\* nothing loads the nodes of the MYSQL section and looks up once more
GetClient(clients, pattern) ==
    IF ~HasClientPool
    THEN [raised |-> "AttributeError", value |-> <<>>, clients |-> clients]
    ELSE
        LET first == GetNodeClient(clients, pattern)
        IN  IF first.raised = None THEN first
            ELSE GetNodeClient(MainNodeLogic(clients, MysqlConfig), pattern)

GROUP == <<"G","R","O","U","P">>

Configs ==
    {<<>>}
    \cup { <<a>> : a \in Nodes(NodeA, <<>>) }
    \cup { <<a, b>> : a \in Nodes(NodeA, <<>>), b \in Nodes(NodeAB, <<>>) }
    \cup { <<a>> : a \in UNION { Nodes(NodeA, <<b>>) :
                                   b \in Nodes(NodeA, <<>>) \cup Nodes(NodeAB, <<>>) } }
    \cup { <<Section(GROUP, TRUE, FALSE, PyNone, <<b>>)>> : b \in Nodes(NodeAB, <<>>) }

Patterns ==
    {PyNone, PyStr(RDS), PyStr(NodeA), PyStr(NodeAB), PyStr(NODE_SECTION \o <<"C">>),
     SELECT, INSERT, PyList(<<SELECT>>), PyList(<<INSERT, SELECT>>),
     PyList(<<PyStr(NodeAB)>>), PyList(<<UPDATE, PyStr(NodeA)>>)}

PoolInit ==
    /\ ContextIdle
    /\ OptionsIdle
    /\ TranslatorIdle
    /\ ControllersIdle
    /\ RepositoryIdle
    /\ HttpIdle
    /\ LoggersIdle
    /\ ResolvingIdle
    /\ PoolIdle
    /\ InspectionIdle
    /\ ManagerIdle

PoolFrame ==
    UNCHANGED <<ctxVars, optVars, trVars, ctlVars, repoVars, httpVars, logVars,
                resolving, beanVars, managerVars>>

get_node_client(pattern) ==
    /\ \E r \in {GetNodeClient(internal_clients, pattern)} :
        /\ internal_clients' = r.clients
        /\ pool_call' = [op |-> "get_node_client", pattern |-> pattern, config |-> <<>>,
                         before |-> internal_clients,
                         raised |-> r.raised, value |-> r.value]
    /\ PoolFrame

inspect_nodes(config_properties) ==
    /\ internal_clients' = MainNodeLogic(internal_clients, config_properties)
    /\ pool_call' = [op |-> "inspect_nodes", pattern |-> PyNone,
                     config |-> config_properties, before |-> internal_clients,
                     raised |-> None, value |-> <<>>]
    /\ PoolFrame

get_client(pattern) ==
    /\ \E r \in {GetClient(internal_clients, pattern)} :
        /\ internal_clients' = r.clients
        /\ pool_call' = [op |-> "get_client", pattern |-> pattern, config |-> <<>>,
                         before |-> internal_clients,
                         raised |-> r.raised, value |-> r.value]
    /\ PoolFrame

\* the caller takes a client off the list a lookup returned: .pop()
pop_client ==
    /\ pool_call.value # <<>>
    /\ pool_call' = [pool_call EXCEPT
                        !.op = "pop",
                        !.before = internal_clients,
                        !.value = SubSeq(pool_call.value, 1, Len(pool_call.value) - 1)]
    /\ UNCHANGED internal_clients
    /\ PoolFrame

PoolNext ==
    \/ \E pattern \in Patterns : get_node_client(pattern)
    \/ \E config_properties \in Configs : inspect_nodes(config_properties)
    \/ \E pattern \in Patterns : get_client(pattern)
    \/ pop_client

SpecPool == PoolInit /\ [][PoolNext]_vars

OnePerNodeId ==
    \A i, j \in 1..Len(internal_clients) :
        internal_clients[i].node_id = internal_clients[j].node_id => i = j

\* the pooled clients of before the call are still there, unaltered and in place
PooledKept ==
    /\ Len(pool_call.before) <= Len(internal_clients)
    /\ SubSeq(internal_clients, 1, Len(pool_call.before)) = pool_call.before

Lookups == {"get_client", "get_node_client"}

LookupLeavesPool ==
    pool_call.op \in Lookups \cup {"pop"} => internal_clients = pool_call.before

NoMatch ==
    ~ \E k \in 1..Len(internal_clients) : Matches(pool_call.pattern, internal_clients[k])

\* C24: after any sequence of get_client, get_node_client and inspect_nodes
\* calls the pool holds at most one DatabaseClient per node id, a pooled node
\* is never created again, a lookup (and what the caller does with the list it
\* got) leaves the pooled clients as they were, and a lookup that matches no
\* client once the nodes were loaded fails with NodeNotFoundException.
C24_OnePerNodeAndMissIsNodeNotFound ==
    /\ OnePerNodeId
    /\ PooledKept
    /\ pool_call.op = "get_node_client" => LookupLeavesPool
    /\ pool_call.op = "pop" => LookupLeavesPool
    /\ (pool_call.op \in Lookups /\ NoMatch) => pool_call.raised = "NodeNotFoundException"

\* The same for the instance methods alone: get_node_client and inspect_nodes
\* keep one client per node id and a lookup that matches nothing raises
\* NodeNotFoundException; a lookup that matches returns exactly the matching
\* clients.
C24_InstanceMethodsOnePerNode ==
    /\ OnePerNodeId
    /\ PooledKept
    /\ LookupLeavesPool
    /\ pool_call.op = "get_node_client" =>
        /\ NoMatch <=> pool_call.raised = "NodeNotFoundException"
        /\ pool_call.raised = None =>
            pool_call.value = SelectSeq(internal_clients,
                                        LAMBDA c : Matches(pool_call.pattern, c))

\* get_client never reaches the pool
C24_GetClientAttributeError ==
    pool_call.op = "get_client" => pool_call.raised = "AttributeError"

(***************************************************************************)
(* Logical deletion (BaseRepository.logical_delete_entity_by_id)           *)
(***************************************************************************)
\* the call reached the table: the pool gave a client and a class maps the table
ReachedTable(call) == call.clients /\ call.table_name \in EntityTables

LogicalDeleteStep ==
    LET call == repository_call'
        id == call.entity_id
    IN  \* a successful delete keeps the row and sets its deleted_at; the count
        \* of rows that paginate_items bounds the page with is unchanged
        /\ (call.op = "logical_delete_entity_by_id" /\ call.raised = None) =>
                /\ table' = table
                /\ QueryGet(table', id) # <<>>
                /\ id \in deleted_at'
        \* no call clears a deleted_at or removes a row
        /\ deleted_at \subseteq deleted_at'
        /\ Len(table') >= Len(table)
        \* every later find_by_id of the id returns None
        /\ (call.op = "find_by_id" /\ id \in deleted_at /\ ReachedTable(call)) =>
                call.raised = None /\ call.value = "none"
        \* find_entities no longer lists the record
        /\ (call.op = "find_entities" /\ ReachedTable(call)) =>
                /\ call.raised = None
                /\ \A k \in 1..Len(call.data) : call.data[k].id \notin deleted_at
        \* a second delete of the id fails with a bad-request error
        /\ (call.op = "logical_delete_entity_by_id" /\ id \in deleted_at
                /\ ReachedTable(call)) =>
                /\ call.raised = "BadRequestException"
                /\ deleted_at' = deleted_at

\* C25: after logical_delete_entity_by_id(id) succeeds the row still exists
\* with its deleted_at set: every later find_by_id(id) returns None,
\* find_entities no longer lists the record, a second
\* logical_delete_entity_by_id(id) fails with BadRequestException, and the
\* number of rows of the table, which bounds the page, is unchanged.
C25_LogicallyDeletedRowStaysHidden == [][LogicalDeleteStep]_vars

\* a row was logically deleted, and a later find_by_id of it returned None
C25_Witness ==
    /\ repository_call.op = "find_by_id"
    /\ repository_call.entity_id \in deleted_at
    /\ QueryGet(table, repository_call.entity_id) # <<>>
    /\ ReachedTable(repository_call)
    /\ repository_call.value = "none"

(***************************************************************************)
(* PaginationController                                                    *)
(***************************************************************************)
Given(name) == ParametersGet(extracted.request.query_params, name, PyNone)

IsIntegerText(v) == v # PyNone /\ IntOf(v).raised = None

\* the four faults the constructor's docstring names
PageNotInteger == Given(PAGE_ATTRIBUTE) # PyNone /\ ~IsIntegerText(Given(PAGE_ATTRIBUTE))

PageSizeNotInteger ==
    Given(PAGE_SIZE_ATTRIBUTE) # PyNone /\ ~IsIntegerText(Given(PAGE_SIZE_ATTRIBUTE))

PageWithoutPageSize ==
    Given(PAGE_ATTRIBUTE) # PyNone /\ Given(PAGE_SIZE_ATTRIBUTE) = PyNone

OrderTypeWithoutField ==
    Given(ORDER_TYPE_ATTRIBUTE) # PyNone /\ Given(ORDER_BY_ATTRIBUTE) = PyNone

\* page and page_size both given as positive integers
ValidPageAndPageSize ==
    /\ IsIntegerText(Given(PAGE_ATTRIBUTE)) /\ IntOf(Given(PAGE_ATTRIBUTE)).i >= 1
    /\ IsIntegerText(Given(PAGE_SIZE_ATTRIBUTE)) /\ IntOf(Given(PAGE_SIZE_ATTRIBUTE)).i >= 1
    /\ ~OrderTypeWithoutField

PaginationQueryGiven ==
    extracted.op = "pagination" /\ extracted.request.query_params # PyNone

\* C26: constructing a PaginationController is rejected with
\* BadRequestException whenever the query gives a page that is not an
\* integer, a page_size that is not an integer, a page without a page_size or
\* an order type without a field to order by; a query giving valid page and
\* page_size is accepted and yields a Pagination carrying those integers.
C26_FaultsRejectedValidQueryAccepted ==
    PaginationQueryGiven =>
        /\ (PageNotInteger \/ PageSizeNotInteger \/ PageWithoutPageSize
                \/ OrderTypeWithoutField) =>
              extracted.raised = "BadRequestException"
        /\ ValidPageAndPageSize =>
              /\ extracted.raised = None
              /\ extracted.pagination.page = PyInt(IntOf(Given(PAGE_ATTRIBUTE)).i)
              /\ extracted.pagination.page_size =
                    PyInt(IntOf(Given(PAGE_SIZE_ATTRIBUTE)).i)

\* What the constructor does: no construction succeeds.  A query with any
\* parameter ends with BadRequestException, one with none with TypeError.
C26_NoConstructionSucceeds ==
    extracted.op = "pagination" =>
        /\ extracted.raised # None
        /\ Truthy(extracted.request.query_params) =>
              extracted.raised = "BadRequestException"

(***************************************************************************)
(* The page a successful paged translation leaves in the pagination        *)
(***************************************************************************)
\* the last translate_operation call returned, and its pagination had page
\* and page_size set (integers other than 0)
PagedCallReturned ==
    /\ translated.called
    /\ request_options.has_pagination
    /\ translated.raised = None
    /\ translated.before.page.t = "int" /\ translated.before.page.i # 0
    /\ translated.before.page_size.t = "int" /\ translated.before.page_size.i # 0

AtLeastOne(n) == IF n < 1 THEN 1 ELSE n

\* C27 as stated: after every successful translate_operation with page and
\* page_size set, pagination.page <= max(1, ceil(total_size / page_size)).
C27_PageWithinReportedTotal ==
    PagedCallReturned =>
        request_options.pagination.page.i <=
            AtLeastOne(CeilDiv(request_options.pagination.total_size.i,
                               request_options.pagination.page_size.i))

\* C27, amended: after every successful translate_operation with page and
\* page_size set on a table that is not empty, pagination.page <=
\* max(1, ceil(U / page_size)) for the unfiltered row count U of the table.
C27_PageWithinUnfilteredTotal ==
    (PagedCallReturned /\ Len(table) > 0) =>
        request_options.pagination.page.i <=
            AtLeastOne(CeilDiv(Len(table), request_options.pagination.page_size.i))

\* page 3 of size 1 returned from a table of three rows or more of which at
\* most one matches the filter: beyond the last page of total_size
C27_Witness ==
    /\ PagedCallReturned
    /\ Len(table) >= 3
    /\ request_options.pagination.page = PyInt(3)
    /\ request_options.pagination.page_size = PyInt(1)
    /\ request_options.pagination.total_size.i <= 1

(***************************************************************************)
(* The limit and offset a paged translation applies                        *)
(***************************************************************************)
\* the last translate_operation call got as far as query.limit(page_size)
\* .offset((page - 1) * page_size) and ran the query
WindowApplied ==
    /\ translated.called
    /\ request_options.has_pagination
    /\ translated.before.page.t = "int" /\ translated.before.page.i # 0
    /\ translated.before.page_size.t = "int" /\ translated.before.page_size.i # 0
    /\ Len(table) > 0
    /\ translated.raised \in {None, "ProgrammingError"}

AppliedLimit == translated.before.page_size.i

AppliedOffset == PageOffset(translated.before.page.i, translated.before.page_size.i)

\* C28: for every Pagination its constructor accepts and every table,
\* translate_operation applies to the query only a limit >= 1 and an
\* offset >= 0, and a successful paged call returns at most page_size records.
C28_WindowWithinTheTable ==
    WindowApplied =>
        /\ AppliedLimit >= 1
        /\ AppliedOffset >= 0
        /\ translated.raised = None => Len(translated.data) <= AppliedLimit

\* The same for a page and a page_size of at least 1.
C28_WindowOfPositivePages ==
    (WindowApplied /\ translated.before.page.i >= 1
                   /\ translated.before.page_size.i >= 1) =>
        /\ AppliedOffset >= 0
        /\ translated.raised = None
        /\ Len(translated.data) <= AppliedLimit

(***************************************************************************)
(* BeanController.inspect_model and the inspections it delegates to        *)
(* (chalicelib/controllers/translator.py)                                  *)
(*                                                                         *)
(* An attribute of the inspected package is a record: its name, whether it *)
(* is a class, whether the class derives from pydantic's BaseModel, and    *)
(* its fields in declaration order.  A field has a name, a default, is     *)
(* required or not, and is annotated List/list or str.                     *)
(***************************************************************************)
Field(name, list_typed, required, default) ==
    [name |-> name, list_typed |-> list_typed, required |-> required,
     default |-> default]

ModelClass(name, is_class, pydantic, fields) ==
    [name |-> name, is_class |-> is_class, pydantic |-> pydantic, fields |-> fields]

\* class_(**standard_attributes) of a pydantic model: ValidationError when a
\* required field is missing or a value is not of the field's type; names
\* that are no field are ignored
Validates(class_, standard_attributes) ==
    \A f \in 1..Len(class_.fields) :
        LET field == class_.fields[f]
            given == {k \in 1..Len(standard_attributes) :
                         standard_attributes[k].name = field.name}
        IN  /\ field.required => given # {}
            /\ \A k \in given :
                  IF field.list_typed THEN standard_attributes[k].value.t = "list"
                  ELSE standard_attributes[k].value.t = "str"

\* the loop of __inspect_pydantic over class_.__fields__: the dict as the loop
\* leaves it and whether a field defaults to the table name
RECURSIVE FieldsLoop(_, _, _, _, _)
FieldsLoop(fields, standard_attributes, special_attributes, table_name, table_found) ==
    IF fields = <<>>
    THEN [standard_attributes |-> standard_attributes, table_found |-> table_found]
    ELSE
        LET schema == Head(fields)
            found == table_found \/ (table_name # None /\ schema.default = table_name)
        IN  IF special_attributes.t = "list" /\ schema.list_typed
            THEN \* standard_attributes[attribute] = special_attributes; break
                 [standard_attributes |->
                      ItemsSet(standard_attributes, schema.name, special_attributes),
                  table_found |-> found]
            ELSE FieldsLoop(Tail(fields), standard_attributes, special_attributes,
                            table_name, found)

\* BeanController.__inspect_pydantic: the bean built (None when the class
\* rejects the attributes) and the caller's dict as the call leaves it
InspectPydantic(class_, standard_attributes, special_attributes, table_name) ==
    LET looped == FieldsLoop(class_.fields, standard_attributes, special_attributes,
                             table_name, FALSE)
        construct == table_name = None \/ looped.table_found
    IN  [bean |-> IF construct /\ Validates(class_, looped.standard_attributes)
                  THEN class_.name ELSE None,
         standard_attributes |-> looped.standard_attributes]

\* BeanController.__check_type.  For a class that is no pydantic model bean is
\* not bound when it is read.  cls.inspect_domain is the plain function, so
\* its parameters shift by one: vars() of the dict of attributes raises
\* TypeError, which inspect_domain answers with None.
CheckType(class_, standard_parameters, special_parameters, table_name) ==
    IF ~class_.pydantic
    THEN [raised |-> "UnboundLocalError", bean |-> None,
          standard_attributes |-> standard_parameters]
    ELSE \* the bean of __inspect_pydantic, or None from inspect_domain
         [raised |-> None,
          bean |-> InspectPydantic(class_, standard_parameters, special_parameters,
                                   table_name).bean,
          standard_attributes |->
              InspectPydantic(class_, standard_parameters, special_parameters,
                              table_name).standard_attributes]

DOUBLE_UNDERSCORES == <<"_","_">>

\* BeanController.inspect_model: inspect.isclass is called with three
\* arguments for the first attribute of the package whose name does not start
\* with two underscores
InspectModel(candidates, simple_parameters, complex_parameters, table_name) ==
    IF \E k \in 1..Len(candidates) : ~StartsWith(candidates[k].name, DOUBLE_UNDERSCORES)
    THEN [raised |-> "TypeError", bean |-> None, tried |-> <<>>,
          standard_attributes |-> simple_parameters]
    ELSE [raised |-> "BeanNotFoundException", bean |-> None, tried |-> <<>>,
          standard_attributes |-> simple_parameters]

\* the classes inspected: a payload of two required str fields, a page of
\* results with a list field first, and a class that is no pydantic model
Credentials ==
    ModelClass(<<"C">>, TRUE, TRUE,
               <<Field(<<"u">>, FALSE, TRUE, None), Field(<<"p">>, FALSE, TRUE, None)>>)

Batch ==
    ModelClass(<<"B">>, TRUE, TRUE,
               <<Field(<<"t">>, FALSE, FALSE, "display"),
                 Field(<<"r">>, TRUE, TRUE, None),
                 Field(<<"n">>, FALSE, TRUE, None)>>)

Tagged ==
    ModelClass(<<"T">>, TRUE, TRUE,
               <<Field(<<"u">>, TRUE, FALSE, None)>>)

Plain == ModelClass(<<"P">>, TRUE, FALSE, <<>>)

Dunder == ModelClass(DOUBLE_UNDERSCORES \o <<"d">>, FALSE, FALSE, <<>>)

ModelClasses == {Credentials, Batch, Tagged, Plain}

Packages == {<<>>, <<Dunder>>, <<Dunder, Batch, Credentials>>, <<Tagged, Credentials>>}

AttributeDicts ==
    LET Having(name, values) == {<<>>} \cup {<<Entry(name, v)>> : v \in values}
    IN  { u \o p \o n :
            u \in Having(<<"u">>, {Str(<<"a">>)}),
            p \in Having(<<"p">>, {Str(<<"s">>)}),
            n \in Having(<<"n">>, {Str(<<"1">>)}) }

SpecialAttributes == {PyList(<<>>), PyList(<<PyInt(1)>>), Str(<<"a","b","c">>)}

InspectionInit ==
    /\ ContextIdle
    /\ OptionsIdle
    /\ TranslatorIdle
    /\ ControllersIdle
    /\ RepositoryIdle
    /\ HttpIdle
    /\ LoggersIdle
    /\ LateIdle

InspectionFrame ==
    UNCHANGED <<ctxVars, optVars, trVars, ctlVars, repoVars, httpVars, logVars,
                resolving, poolVars, managerVars>>

\* BeanController.__inspect_pydantic(class_, standard_attributes,
\* special_attributes, table_name)
inspect_pydantic(class_, standard_attributes, special_attributes, table_name) ==
    /\ \E r \in {InspectPydantic(class_, standard_attributes, special_attributes,
                                 table_name)} :
          inspection' = [NoInspection EXCEPT
                            !.op = "inspect_pydantic", !.candidates = <<class_>>,
                            !.given = standard_attributes,
                            !.after = r.standard_attributes,
                            !.special_attributes = special_attributes,
                            !.table_name = table_name,
                            !.bean = r.bean, !.tried = <<standard_attributes>>]
    /\ InspectionFrame

\* BeanController.__check_type(class_, standard_parameters, special_parameters,
\* table_name)
check_type(class_, standard_parameters, special_parameters, table_name) ==
    /\ \E r \in {CheckType(class_, standard_parameters, special_parameters,
                           table_name)} :
          inspection' = [NoInspection EXCEPT
                            !.op = "check_type", !.candidates = <<class_>>,
                            !.given = standard_parameters,
                            !.after = r.standard_attributes,
                            !.special_attributes = special_parameters,
                            !.table_name = table_name,
                            !.raised = r.raised,
                            !.bean = r.bean, !.tried = <<standard_parameters>>]
    /\ InspectionFrame

\* BeanController.inspect_model(model_package, simple_parameters=...,
\* complex_parameters=...)
inspect_model(candidates, simple_parameters, complex_parameters) ==
    /\ \E r \in {InspectModel(candidates, simple_parameters, complex_parameters, None)} :
          inspection' = [NoInspection EXCEPT
                            !.op = "inspect_model", !.candidates = candidates,
                            !.given = simple_parameters,
                            !.after = r.standard_attributes,
                            !.special_attributes = complex_parameters,
                            !.raised = r.raised,
                            !.bean = r.bean, !.tried = r.tried]
    /\ InspectionFrame

InspectionNext ==
    \/ \E c \in ModelClasses \ {Plain}, a \in AttributeDicts, s \in SpecialAttributes,
          t \in {None, "display"} : inspect_pydantic(c, a, s, t)
    \/ \E c \in ModelClasses, a \in AttributeDicts, s \in SpecialAttributes,
          t \in {None, "display"} : check_type(c, a, s, t)
    \/ \E p \in Packages, a \in AttributeDicts, s \in SpecialAttributes :
          inspect_model(p, a, s)

SpecInspection == InspectionInit /\ [][InspectionNext]_vars

\* the classes of a package, in the order inspect_model meets them
ClassesOf(candidates) ==
    SelectSeq(candidates,
              LAMBDA c : c.is_class /\ ~StartsWith(c.name, DOUBLE_UNDERSCORES))

\* C29: while inspect_model tries candidate classes, a candidate that rejects
\* the parameters leaves the merged simple parameters unchanged, and every
\* candidate is tried with exactly the parameters the caller computed, without
\* fields injected for an earlier one.
C29_RejectingCandidateLeavesParameters ==
    /\ (inspection.op \in {"inspect_pydantic", "check_type"} /\ inspection.bean = None) =>
          inspection.after = inspection.given
    /\ (inspection.op = "inspect_model" /\ inspection.bean = None) =>
          /\ inspection.after = inspection.given
          /\ inspection.tried =
                [k \in 1..Len(ClassesOf(inspection.candidates)) |-> inspection.given]

\* What inspect_model does: it tries no candidate.  A package with an
\* attribute to inspect ends the call with TypeError, any other with
\* BeanNotFoundException.
C29_InspectModelTriesNoCandidate ==
    inspection.op = "inspect_model" =>
        /\ inspection.tried = <<>>
        /\ inspection.after = inspection.given
        /\ inspection.raised \in {"TypeError", "BeanNotFoundException"}

\* What a rejecting pydantic candidate leaves behind: the attributes given,
\* and the special attributes under the name of its first List field when
\* they are a list.
C29_RejectingCandidateKeepsInjectedField ==
    (inspection.op = "inspect_pydantic" /\ inspection.bean = None) =>
        \/ inspection.after = inspection.given
        \/ /\ inspection.special_attributes.t = "list"
           /\ \E f \in 1..Len(inspection.candidates[1].fields) :
                /\ inspection.candidates[1].fields[f].list_typed
                /\ inspection.after =
                      ItemsSet(inspection.given, inspection.candidates[1].fields[f].name,
                               inspection.special_attributes)

(***************************************************************************)
(* ComponentManagementController (chalicelib/controllers/management.py)    *)
(*                                                                         *)
(* An entry of components is a record: what it is an instance of, the      *)
(* name of a processing controller, and that controller's result.  What a  *)
(* component's process(request) does is an input of the call: it sets its  *)
(* result to a value or to an empty list, leaves it, or sets it and        *)
(* raises.                                                                 *)
(***************************************************************************)
Component(kind, id, result) == [kind |-> kind, id |-> id, result |-> result]

\* ProcessingController.__init__: self.result = None
ProcessingControllerInit(id) == Component("ProcessingController", id, PyNone)

\* ComponentManagementController.__init__: the values of vars(self) after
\* super().__init__() and self.__components = list() are the None result and
\* the list itself
ManagerComponents ==
    <<Component("NoneType", None, PyNone), Component("list", None, PyNone)>>

Behaviours == {"value", "empty", "keep", "raise"}

\* component.process(request): the component afterwards and whether it raised
ComponentProcess(component, behaviour) ==
    CASE behaviour = "value" ->
            [raised |-> FALSE,
             component |-> [component EXCEPT !.result = PyStr(<<component.id>>)]]
      [] behaviour = "empty" ->
            [raised |-> FALSE, component |-> [component EXCEPT !.result = PyList(<<>>)]]
      [] behaviour = "keep" -> [raised |-> FALSE, component |-> component]
      [] OTHER ->
            [raised |-> TRUE,
             component |-> [component EXCEPT !.result = PyStr(<<component.id>>)]]

\* a loop that the first exception ends
RECURSIVE ProcessUntilException(_, _, _, _, _)
ProcessUntilException(components, k, did, result, logged) ==
    IF k > Len(components)
    THEN [components |-> components, result |-> result, logged |-> logged,
          raised |-> None]
    ELSE IF components[k].kind # "ProcessingController"
    THEN ProcessUntilException(components, k + 1, did, result, logged)
    ELSE LET r == ComponentProcess(components[k], did[k])
         IN  IF r.raised
             THEN [components |-> [components EXCEPT ![k] = r.component],
                   result |-> result, logged |-> Append(logged, k), raised |-> None]
             ELSE ProcessUntilException([components EXCEPT ![k] = r.component], k + 1,
                                        did,
                                        IF Truthy(r.component.result)
                                        THEN Append(result, r.component.result)
                                        ELSE result,
                                        logged)

\* ComponentManagementController.process, from the k-th component on
RECURSIVE Process(_, _, _, _, _)
Process(components, k, did, result, logged) ==
    IF k > Len(components)
    THEN [components |-> components, result |-> result, logged |-> logged,
          raised |-> None]
    ELSE IF components[k].kind # "ProcessingController"
    THEN Process(components, k + 1, did, result, logged)
    ELSE LET r == ComponentProcess(components[k], did[k])
         IN  IF r.raised
             THEN Process([components EXCEPT ![k] = r.component], k + 1, did, result,
                          Append(logged, k))
             ELSE Process([components EXCEPT ![k] = r.component], k + 1, did,
                          IF Truthy(r.component.result)
                          THEN Append(result, r.component.result)
                          ELSE result,
                          logged)

ComponentIds == {"a", "b"}

MaxResults == 3

ManagerInit ==
    /\ ContextIdle
    /\ OptionsIdle
    /\ TranslatorIdle
    /\ ControllersIdle
    /\ RepositoryIdle
    /\ HttpIdle
    /\ LoggersIdle
    /\ ResolvingIdle
    /\ PoolIdle
    /\ InspectionIdle
    /\ manager_components = ManagerComponents
    /\ manager_result = <<>>
    /\ manager_call = NoManagerCall

ManagerFrame ==
    UNCHANGED <<ctxVars, optVars, trVars, ctlVars, repoVars, httpVars, logVars,
                resolving, poolVars, beanVars>>

\* manager.components.append(controller), for a controller not yet managed
append_component(id) ==
    /\ \A k \in 1..Len(manager_components) : manager_components[k].id # id
    /\ manager_components' = Append(manager_components, ProcessingControllerInit(id))
    /\ UNCHANGED <<manager_result, manager_call>>
    /\ ManagerFrame

\* manager.process(request)
process(did) ==
    /\ Len(manager_result) + Len(manager_components) - Len(ManagerComponents) <= MaxResults
    /\ \E r \in {Process(manager_components, 1, did, manager_result, <<>>)} :
          /\ manager_components' = r.components
          /\ manager_result' = r.result
          /\ manager_call' = [called |-> TRUE, did |-> did, before |-> manager_result,
                              raised |-> r.raised, logged |-> r.logged]
    /\ ManagerFrame

ManagerNext ==
    \/ \E id \in ComponentIds : append_component(id)
    \/ \E did \in [1..Len(manager_components) -> Behaviours] : process(did)

SpecManager == ManagerInit /\ [][ManagerNext]_vars

\* process was called, and no component was added since
Processed ==
    manager_call.called /\ Len(manager_call.did) = Len(manager_components)

\* the positions of the processing components, in component order
Managed ==
    SelectSeq([k \in 1..Len(manager_components) |-> k],
              LAMBDA k : manager_components[k].kind = "ProcessingController")

Raising == SelectSeq(Managed, LAMBDA k : manager_call.did[k] = "raise")

\* the components that completed and hold a non-empty result
Yielding ==
    SelectSeq(Managed, LAMBDA k : /\ manager_call.did[k] # "raise"
                                  /\ Truthy(manager_components[k].result))

\* C30: process runs every managed processing component once, in order; an
\* exception of one component is logged, does not stop the components after
\* it and does not reach the caller; result is the result of before the call
\* followed by the non-empty results of the components that completed, in
\* component order.
C30_EveryComponentRunsResultsAppended ==
    Processed =>
        /\ manager_call.raised = None
        /\ manager_call.logged = Raising
        /\ \A k \in 1..Len(manager_components) :
              (manager_components[k].kind = "ProcessingController"
                  /\ manager_call.did[k] \in {"value", "raise"}) =>
                    manager_components[k].result = PyStr(<<manager_components[k].id>>)
        /\ manager_result =
              manager_call.before \o
                  [n \in 1..Len(Yielding) |-> manager_components[Yielding[n]].result]

\* a second call: the first of two components raised, the one after it ran
\* and its result follows the results of the call before
C30_Witness ==
    /\ Processed
    /\ manager_call.before # <<>>
    /\ Len(Managed) = 2
    /\ manager_call.did[Managed[1]] = "raise"
    /\ manager_call.did[Managed[2]] = "value"
    /\ manager_call.logged = <<Managed[1]>>
    /\ manager_result =
          Append(manager_call.before, manager_components[Managed[2]].result)

====
